---- MODULE Spec2Model ----
(***************************************************************************)
(* Model of evaluation/evaluate-sv-predictions2.py: the variant store, the *)
(* sweep-line matcher for deletions and insertions, the per-variant        *)
(* outcome object, and the statistics aggregator.                          *)
(*                                                                         *)
(* Conventions.                                                            *)
(*  - A Python index n of a list is the index n+1 of the TLA+ sequence.    *)
(*  - None is the empty sequence; a present optional value x is <<x>>.     *)
(*    A genotype string such as '021' is the digit sequence <<0,2,1>>.     *)
(*  - The module is run with true division (from __future__ import         *)
(*    division), so centers and center distances are multiples of 1/2.     *)
(*    Every distance stored in a hit is kept doubled (in half units).      *)
(*  - A float that is a quotient of integers is the reduced pair           *)
(*    <<num, den>>; NaN is <<0, 0>>.                                       *)
(***************************************************************************)
EXTENDS Integers, Sequences, FiniteSets, TLC

VARIABLES
    pc,                \* position of main: "load", "match", "aggregate", "done", "aborted"
    options,           \* parsed command line: mode, trio, offset, difflength, length range
    input,             \* which family of input files is being read
    true_variants,     \* VariationList.variations of the truth file: chromosome -> records
    predictions,       \* VariationList.variations of the prediction file
    stats_lists,       \* main's stats_lists: one bundle of four outcome lists per tool
    results,           \* aggregate_toolwise_statistics's return value
    stats,             \* one VariationStatistics object (hits, mix_hits)
    best               \* return value of the last get_best_hit on stats

vars == <<pc, options, input, true_variants, predictions, stats_lists, results, stats, best>>

None == <<>>

Some(x) == <<x>>

Max(a, b) == IF a >= b THEN a ELSE b

Min(a, b) == IF a <= b THEN a ELSE b

Abs(a) == IF a >= 0 THEN a ELSE -a

RECURSIVE Gcd(_, _)
Gcd(a, b) == IF b = 0 THEN a ELSE Gcd(b, a % b)

NaN == <<0, 0>>

IsNaN(x) == x[2] = 0

\* a / b for integers a >= 0, b > 0, as a reduced pair
Quot(a, b) == LET g == Gcd(a, b) IN <<a \div g, b \div g>>

\* a division that yields 0 when dividing by zero
nan_div_zero(a, b) == IF b = 0 THEN <<0, 1>> ELSE Quot(a, b)

\* nan_div: a / b, NaN on ZeroDivisionError
nan_div(a, b) == IF b = 0 THEN NaN ELSE Quot(a, b)

\* f_measure returning 0 instead of NaN when recall + precision is zero
f_measure_zero_sum(recall, precision) ==
    IF recall = None \/ precision = None THEN None
    ELSE IF IsNaN(recall) \/ IsNaN(precision) THEN NaN
    ELSE IF recall[1] * precision[2] + precision[1] * recall[2] = 0 THEN <<0, 1>>
    ELSE Quot(2 * recall[1] * precision[1],
              recall[1] * precision[2] + precision[1] * recall[2])

\* f_measure(recall, precision) on quotients: 2*r*p / (r+p)
f_measure(recall, precision) ==
    IF recall = None \/ precision = None THEN None
    ELSE IF IsNaN(recall) \/ IsNaN(precision) THEN NaN
    ELSE IF recall[1] * precision[2] + precision[1] * recall[2] = 0 THEN NaN
    ELSE Quot(2 * recall[1] * precision[1],
              recall[1] * precision[2] + precision[1] * recall[2])

(***************************************************************************)
(* Genotype encoding                                                       *)
(***************************************************************************)
RECURSIVE Pow(_, _)
Pow(b, e) == IF e = 0 THEN 1 ELSE b * Pow(b, e - 1)

RECURSIVE IndexFromTypeLoop(_, _)
IndexFromTypeLoop(genostring, i) ==
    IF i >= Len(genostring) THEN 0
    ELSE Pow(3, i) * genostring[Len(genostring) - i]
         + IndexFromTypeLoop(genostring, i + 1)

\* index_from_type reading the first character as the least significant digit
index_from_type_reversed(genostring) ==
    IndexFromTypeLoop(<<genostring[3], genostring[2], genostring[1]>>, 0)

\* index_from_type: sum over i of 3**i * int(genostring[len-i-1])
index_from_type(genostring) == IndexFromTypeLoop(genostring, 0)

\* the items of typedict, line 78
TypedictItems ==
    { <<<<0,0,0>>, 0>>, <<<<0,0,1>>, 1>>, <<<<0,0,2>>, 2>>, <<<<0,1,0>>, 3>>,
      <<<<0,1,1>>, 4>>, <<<<0,1,2>>, 5>>, <<<<0,2,0>>, 6>>, <<<<0,2,1>>, 7>>,
      <<<<0,2,2>>, 8>>, <<<<1,0,0>>, 9>>, <<<<1,0,1>>, 10>>, <<<<1,0,2>>, 11>>,
      <<<<1,1,0>>, 12>>, <<<<1,1,1>>, 13>>, <<<<1,1,2>>, 14>>, <<<<1,2,0>>, 15>>,
      <<<<1,2,1>>, 16>>, <<<<1,2,2>>, 17>>, <<<<2,0,0>>, 18>>, <<<<2,0,1>>, 19>>,
      <<<<2,0,2>>, 20>>, <<<<2,1,0>>, 21>>, <<<<2,1,1>>, 22>>, <<<<2,1,2>>, 23>>,
      <<<<2,2,0>>, 24>>, <<<<2,2,1>>, 25>>, <<<<2,2,2>>, 26>> }

\* typedict: the dictionary from genotype string to index
typedict ==
    [s \in {item[1] : item \in TypedictItems} |->
        (CHOOSE item \in TypedictItems : item[1] = s)[2]]

\* idx_to_triotype = dict((i, triotype) for triotype, i in typedict.items()), line 934
idx_to_triotype ==
    [i \in {item[2] : item \in TypedictItems} |->
        (CHOOSE item \in TypedictItems : item[2] = i)[1]]

\* the table with the binary numbering of membership_from_type in place of the
\* numbering of lines 54-61
type2member_binary ==
    <<0, 1, 1, 2, 3, 3, 2, 3, 3, 4, 5, 5, 6, 7, 7, 6, 7, 7, 4, 5, 5, 6, 7, 7, 6, 7, 7>>

\* type2member, line 53; the entry of index i is type2member[i + 1]
type2member ==
    <<0, 1, 1, 2, 4, 4, 2, 4, 4, 3, 5, 5, 6, 7, 7, 6, 7, 7, 3, 5, 5, 6, 7, 7, 6, 7, 7>>

\* the table with the entry of '201' taken for a mistyped pattern
type2trio_parent_sensitive ==
    <<0, 1, 11, 2, 3, 12, 13, 4, 14, 2, 3, 12, 5, 6, 7, 15, 8, 9, 13, 14, 14, 15, 8, 9,
      16, 17, 10>>

\* type2trio, line 63; the entry of index i is type2trio[i + 1]
type2trio ==
    <<0, 1, 11, 2, 3, 12, 13, 4, 14, 2, 3, 12, 5, 6, 7, 15, 8, 9, 13, 4, 14, 15, 8, 9,
      16, 17, 10>>

\* triotypedict, line 74
triotypedict ==
    (<<0,0,0>> :> 0) @@ (<<0,0,1>> :> 1) @@ (<<0,1,0>> :> 2) @@ (<<1,0,0>> :> 2)
    @@ (<<0,1,1>> :> 3) @@ (<<1,0,1>> :> 3) @@ (<<0,2,1>> :> 4) @@ (<<2,0,1>> :> 4)
    @@ (<<1,1,0>> :> 5) @@ (<<1,1,1>> :> 6) @@ (<<1,1,2>> :> 7) @@ (<<1,2,1>> :> 8)
    @@ (<<2,1,1>> :> 8) @@ (<<1,2,2>> :> 9) @@ (<<2,1,2>> :> 9) @@ (<<2,2,2>> :> 10)

\* mistypedict, line 75
mistypedict ==
    (<<0,0,2>> :> 11) @@ (<<0,1,2>> :> 12) @@ (<<1,0,2>> :> 12) @@ (<<0,2,0>> :> 13)
    @@ (<<2,0,0>> :> 13) @@ (<<0,2,2>> :> 14) @@ (<<2,0,2>> :> 14) @@ (<<1,2,0>> :> 15)
    @@ (<<2,1,0>> :> 15) @@ (<<2,2,0>> :> 16) @@ (<<2,2,1>> :> 17)

\* mistypes, line 79
mistypes == <<2, 5, 6, 8, 11, 15, 18, 20, 21, 24, 25>>

(***************************************************************************)
(* VariationStatistics                                                     *)
(***************************************************************************)
\* a hit tuple (index, length_diff, offset, typing); offset is in half units
Hit(index, length_diff, offset, typing) ==
    [index |-> index, length_diff |-> length_diff, offset |-> offset, typing |-> typing]

VariationStatistics(chromosome, index, typing) ==
    [chromosome |-> chromosome, index |-> index, typing |-> typing,
     hits |-> <<>>, mix_hits |-> <<>>]

\* add_hit that ignores mix_hit and stores every hit in hits
add_hit_ignoring_mix(self, index, length_diff, offset, typing, mix_hit) ==
    [self EXCEPT !.hits = Append(@, Hit(index, length_diff, offset, typing))]

add_hit(self, index, length_diff, offset, typing, mix_hit) ==
    IF mix_hit
    THEN [self EXCEPT !.mix_hits = Append(@, Hit(index, length_diff, offset, typing))]
    ELSE [self EXCEPT !.hits = Append(@, Hit(index, length_diff, offset, typing))]

is_hit(self) == Len(self.hits) > 0

is_mix_hit(self) == Len(self.mix_hits) > 0

\* score = max(length_diff, offset); both sides doubled, offset being in half units
Score(h) == Max(2 * h.length_diff, h.offset)

\* BetterScore that also replaces the best hit by a later hit of equal score
BetterScoreOrEqual(score, best_score) == score <= best_score

\* the comparison of get_best_hit's loop: score < best_score
BetterScore(score, best_score) == score < best_score

\* get_best_hit's loop from position i on, best_index being the best one so far
\* (0 stands for best_index = -1 with best_score = inf)
RECURSIVE BestIndexLoop(_, _, _)
BestIndexLoop(hits, i, best_index) ==
    IF i > Len(hits) THEN best_index
    ELSE BestIndexLoop(hits, i + 1,
            IF best_index = 0 \/ BetterScore(Score(hits[i]), Score(hits[best_index]))
            THEN i ELSE best_index)

\* the tuple (None, None, None) that get_best_hit returns for an empty hit list
NoBestHit == [index |-> None, length_diff |-> None, offset |-> None]

\* get_best_hit: (None, None, None) for an empty hit list, else hits[best_index]
get_best_hit(self) ==
    IF Len(self.hits) = 0 THEN NoBestHit
    ELSE self.hits[BestIndexLoop(self.hits, 1, 0)]

(***************************************************************************)
(* VariationList: the store                                                *)
(***************************************************************************)
\* a stored record (coord1, coord2, coord3, vartype, genotype), line 315
Variation(coord1, coord2, coord3, var_type, tags) ==
    [coord1 |-> coord1, coord2 |-> coord2, coord3 |-> coord3,
     var_type |-> var_type, tags |-> tags]

\* self.variations[chromosome] of a defaultdict(list): the empty list for a new key
Variations(variations, chromosome) ==
    IF chromosome \in DOMAIN variations THEN variations[chromosome] ELSE <<>>

\* the defaultdict after its keys in chroms have been read: a missing key is created
Touched(variations, chroms) ==
    [c \in (DOMAIN variations) \cup chroms |-> Variations(variations, c)]

\* get_chromosomes: the keys of the store
get_chromosomes(variations) == DOMAIN variations

\* the digit appended for one family member's GT string, lines 303-308
GenotypeDigit(member) ==
    IF member \in {"1/1", "1|1"} THEN 2
    ELSE IF member \in {"1/.", "1/0", "1|0", "1|.", "0|1", ".|1", "0/1", "./1"} THEN 1
    ELSE 0

\* the genotype string built from the GT strings of mother, father, child, lines 301-308
Genotype(family) ==
    <<GenotypeDigit(family[1]), GenotypeDigit(family[2]), GenotypeDigit(family[3])>>

\* the genotype stored with a record: None unless in trio mode, lines 291-308
StoredGenotype(istrio, family) == IF istrio THEN Genotype(family) ELSE None

\* a loader that keeps the records whose trio genotype is '000'
SkippedAtLoadNever(istrio, family) == FALSE

\* the record is dropped when its trio genotype is '000', line 309
SkippedAtLoad(istrio, family) == istrio /\ Genotype(family) = <<0, 0, 0>>

\* self.variations[chromosome].append(...), line 315
AppendVariation(variations, chromosome, v) ==
    [c \in (DOMAIN variations) \cup {chromosome} |->
        IF c = chromosome THEN Append(Variations(variations, c), v)
        ELSE variations[c]]

(***************************************************************************)
(* The sweep                                                               *)
(***************************************************************************)
\* the smallest length a target variant may have, lines 374, 385, 545, 558
MinTargetLength == 5

Event(pos, event_type, list_idx, n) ==
    [pos |-> pos, event_type |-> event_type, list_idx |-> list_idx, n |-> n]

\* TypeRank with Start events ordered before End events
TypeRankStartFirst(event_type) == IF event_type = "S" THEN 0 ELSE 1

\* 'E' < 'S' as Python strings
TypeRank(event_type) == IF event_type = "E" THEN 0 ELSE 1

\* the order of the event tuples (pos, event_type, list_idx, n) under events.sort()
EventLess(a, b) ==
    \/ a.pos < b.pos
    \/ a.pos = b.pos /\ TypeRank(a.event_type) < TypeRank(b.event_type)
    \/ a.pos = b.pos /\ a.event_type = b.event_type /\ a.list_idx < b.list_idx
    \/ a.pos = b.pos /\ a.event_type = b.event_type /\ a.list_idx = b.list_idx /\ a.n < b.n

\* events.sort(): the events are pairwise different tuples, so the sorted list is
\* the one list that is increasing under the tuple order
RECURSIVE SortEvents(_)
SortEvents(events) ==
    IF events = {} THEN <<>>
    ELSE LET first == CHOOSE e \in events : \A f \in events \ {e} : EventLess(e, f)
         IN <<first>> \o SortEvents(events \ {first})

\* QueryLengthOk with the lower end of the range excluded
QueryLengthOkExclusive(length, min_length, max_length) ==
    length > min_length /\ length <= max_length

\* the filter of a query variant's length: min_length <= length <= max_length
QueryLengthOk(length, min_length, max_length) ==
    length >= min_length /\ length <= max_length

\* a ceiling on the target length that difflength lowers instead of raising
TargetLengthOkNarrowing(length, min_length, max_length, difflength) ==
    /\ ~(length < Max(min_length - difflength, MinTargetLength))
    /\ ~(length > max_length - difflength)

\* the filter of a target variant's length, widened by difflength, never below 5
TargetLengthOk(length, min_length, max_length, difflength) ==
    /\ ~(length < Max(min_length - difflength, MinTargetLength))
    /\ ~(length > max_length + difflength)

\* OrZero that drops the offset: the target boundaries are never widened
OrZeroNoWidening(x) == 0

\* the offset argument: None (main's value outside fixed_distance mode) is replaced
\* by 0, lines 357 and 522; difflength is always an integer (option -z, type int)
OrZero(x) == IF x = None THEN 0 ELSE x[1]

\* the events of the variants of self, lines 360-368
DeletionQueryEvents(list, min_length, max_length) ==
    UNION { IF /\ list[n].var_type = "DEL"
               /\ QueryLengthOk(list[n].coord2 - list[n].coord1, min_length, max_length)
            THEN {Event(list[n].coord1, "S", 0, n), Event(list[n].coord2, "E", 0, n)}
            ELSE {} : n \in 1..Len(list) }

\* the length under which a target variant is filtered, lines 372, 381-383
DeletionTargetLength(v) ==
    IF v.var_type = "MIX" THEN (v.coord2 - v.coord1) - v.coord3[1]
    ELSE v.coord2 - v.coord1

\* DeletionTargetEvents that widens the start of a target only
DeletionTargetEventsStartOnly(list, min_length, max_length, offset, difflength) ==
    UNION { IF /\ list[n].var_type \in {"DEL", "MIX"}
               /\ TargetLengthOk(DeletionTargetLength(list[n]), min_length, max_length, difflength)
            THEN {Event(list[n].coord1 - offset, "S", 1, n),
                  Event(list[n].coord2, "E", 1, n)}
            ELSE {} : n \in 1..Len(list) }

\* the events of the variants of another_list, lines 369-390
DeletionTargetEvents(list, min_length, max_length, offset, difflength) ==
    UNION { IF /\ list[n].var_type \in {"DEL", "MIX"}
               /\ TargetLengthOk(DeletionTargetLength(list[n]), min_length, max_length, difflength)
            THEN {Event(list[n].coord1 - offset, "S", 1, n),
                  Event(list[n].coord2 + offset, "E", 1, n)}
            ELSE {} : n \in 1..Len(list) }

\* the sweep's state before the first event, lines 392-393
SweepStart(n0) ==
    [results |-> [i \in 1..n0 |-> {}], active |-> <<{}, {}>>, status |-> "ok"]

\* one event of the sweep, lines 394-404; set.remove of an absent index raises KeyError
SweepStep(s, e) ==
    IF s.status # "ok" THEN s
    ELSE IF e.event_type = "S"
    THEN [s EXCEPT
            !.results = IF e.list_idx = 0
                        THEN [@ EXCEPT ![e.n] = @ \cup s.active[2]]
                        ELSE [i \in DOMAIN @ |-> IF i \in s.active[1] THEN @[i] \cup {e.n} ELSE @[i]],
            !.active[e.list_idx + 1] = @ \cup {e.n}]
    ELSE IF e.n \in s.active[e.list_idx + 1]
         THEN [s EXCEPT !.active[e.list_idx + 1] = @ \ {e.n}]
         ELSE [s EXCEPT !.status = "KeyError"]

RECURSIVE SweepLoop(_, _, _)
SweepLoop(s, events, k) ==
    IF k > Len(events) THEN s ELSE SweepLoop(SweepStep(s, events[k]), events, k + 1)

\* the sweep over the sorted events, lines 391-405
Sweep(events, n0) == SweepLoop(SweepStart(n0), SortEvents(events), 1)

\* the asserts coord1 <= coord2 on DEL records of self and DEL/MIX records of another_list
DeletionAssertsOk(self_list, another) ==
    /\ \A n \in 1..Len(self_list) :
          self_list[n].var_type = "DEL" => self_list[n].coord1 <= self_list[n].coord2
    /\ \A n \in 1..Len(another) :
          another[n].var_type \in {"DEL", "MIX"} => another[n].coord1 <= another[n].coord2

\* find_all_deletion_overlaps on one chromosome's two record lists
find_all_deletion_overlaps(self_list, another, min_length, max_length, offset, difflength) ==
    IF ~DeletionAssertsOk(self_list, another)
    THEN [SweepStart(Len(self_list)) EXCEPT !.status = "AssertionError"]
    ELSE Sweep(DeletionQueryEvents(self_list, min_length, max_length)
                 \cup DeletionTargetEvents(another, min_length, max_length,
                                           OrZero(offset), difflength),
               Len(self_list))

\* the events of the insertions of self, lines 527-537
InsertionQueryEvents(list, min_length, max_length) ==
    UNION { IF /\ list[n].var_type = "INS"
               /\ ~(list[n].coord2 <= 0)
               /\ QueryLengthOk(list[n].coord2, min_length, max_length)
            THEN {Event(list[n].coord1, "S", 0, n),
                  Event(list[n].coord1 + list[n].coord2, "E", 0, n)}
            ELSE {} : n \in 1..Len(list) }

\* the events of the variants of another_list, lines 538-563
InsertionTargetEvents(list, min_length, max_length, offset, difflength) ==
    UNION { IF /\ list[n].var_type = "INS"
               /\ ~(list[n].coord2 <= 0)
               /\ TargetLengthOk(list[n].coord2, min_length, max_length, difflength)
            THEN {Event(list[n].coord1 - offset, "S", 1, n),
                  Event(list[n].coord1 + list[n].coord2 + offset, "E", 1, n)}
            ELSE IF /\ list[n].var_type = "MIX"
                    /\ TargetLengthOk(list[n].coord3[1] - (list[n].coord2 - list[n].coord1),
                                      min_length, max_length, difflength)
            THEN {Event(((list[n].coord1 + list[n].coord2) \div 2) - offset, "S", 1, n),
                  Event(((list[n].coord1 + list[n].coord2) \div 2) + list[n].coord3[1] + offset,
                        "E", 1, n)}
            ELSE {} : n \in 1..Len(list) }

\* the asserts on MIX records of another_list, lines 550-554
InsertionAssertsOk(another) ==
    \A n \in 1..Len(another) :
        another[n].var_type = "MIX" =>
            /\ another[n].coord1 <= another[n].coord2
            /\ another[n].coord3[1] > 0
            /\ another[n].coord2 - another[n].coord1 > 0

\* insertion_distances on one chromosome's two record lists
insertion_distances(self_list, another, min_length, max_length, offset, difflength) ==
    IF ~InsertionAssertsOk(another)
    THEN [SweepStart(Len(self_list)) EXCEPT !.status = "AssertionError"]
    ELSE Sweep(InsertionQueryEvents(self_list, min_length, max_length)
                 \cup InsertionTargetEvents(another, min_length, max_length,
                                            OrZero(offset), difflength),
               Len(self_list))

(***************************************************************************)
(* Exact hit filtering                                                     *)
(***************************************************************************)
\* typing of a record: index_from_type(tags) in trio mode, else None
Typing(trio, tags) == IF trio THEN Some(index_from_type(tags)) ELSE None

\* overlap = max(0, min(end0, end1) - max(start0, start1))
Overlap(start0, end0, start1, end1) == Max(0, Min(end0, end1) - Max(start0, start1))

\* ModeTest with the length tolerance taken strictly (length_diff < difflength)
ModeTestStrictTolerance(mode, length_diff, overlap, dist2, offset, difflength) ==
    IF mode = "overlap"
    THEN IF length_diff < difflength /\ overlap > 0 THEN "hit" ELSE "nohit"
    ELSE IF mode = "fixed_distance"
    THEN IF length_diff < difflength /\ dist2 <= 2 * offset[1] THEN "hit" ELSE "nohit"
    ELSE "exit"

\* ModeTest whose overlap mode does not ask for an overlap
ModeTestNoOverlap(mode, length_diff, overlap, dist2, offset, difflength) ==
    IF mode = "overlap"
    THEN IF length_diff <= difflength THEN "hit" ELSE "nohit"
    ELSE IF mode = "fixed_distance"
    THEN IF length_diff <= difflength /\ dist2 <= 2 * offset[1] THEN "hit" ELSE "nohit"
    ELSE "exit"

\* the test of one mode on (length difference, overlap, doubled distance), lines 501-514
\* and 615-629: "hit", "nohit", or "exit" for an invalid mode
ModeTest(mode, length_diff, overlap, dist2, offset, difflength) ==
    IF mode = "overlap"
    THEN IF length_diff <= difflength /\ overlap > 0 THEN "hit" ELSE "nohit"
    ELSE IF mode = "fixed_distance"
    THEN IF length_diff <= difflength /\ dist2 <= 2 * offset[1] THEN "hit" ELSE "nohit"
    ELSE "exit"

\* DeletionEffectiveLength that counts both end coordinates of a deletion
DeletionEffectiveLengthInclusive(v1) ==
    IF v1.var_type = "DEL" THEN v1.coord2 - v1.coord1 + 1
    ELSE (v1.coord2 - v1.coord1) - v1.coord3[1]

\* effective_length1 of a deletion candidate, lines 491-498
DeletionEffectiveLength(v1) ==
    IF v1.var_type = "DEL" THEN v1.coord2 - v1.coord1
    ELSE (v1.coord2 - v1.coord1) - v1.coord3[1]

\* the body of the loop over the candidates j of a query deletion, lines 486-514
DeletionCandidate(st, v0, v1, j, mode, trio, offset, difflength) ==
    LET del_length0 == v0.coord2 - v0.coord1
        length_diff == Abs(del_length0 - DeletionEffectiveLength(v1))
        dist2       == Abs((v0.coord1 + v0.coord2) - (v1.coord1 + v1.coord2))
        overlap     == Overlap(v0.coord1, v0.coord2, v1.coord1, v1.coord2)
        test        == ModeTest(mode, length_diff, overlap, dist2, offset, difflength)
    IN  IF test = "exit" THEN [st EXCEPT !.status = "exit"]
        ELSE IF test = "hit"
        THEN [st EXCEPT !.stats = add_hit(@, j, length_diff, dist2,
                                          Typing(trio, v1.tags), v1.var_type = "MIX")]
        ELSE st

\* start1 and effective_length1 of an insertion candidate, lines 600-611
InsertionStart(v1) ==
    IF v1.var_type = "INS" THEN v1.coord1 ELSE (v1.coord1 + v1.coord2) \div 2

InsertionEffectiveLength(v1) ==
    IF v1.var_type = "INS" THEN v1.coord2 ELSE v1.coord3[1] - (v1.coord2 - v1.coord1)

\* the body of the loop over the candidates j of a query insertion, lines 594-629
InsertionCandidate(st, v0, v1, j, mode, trio, offset, difflength) ==
    LET length0     == v0.coord2
        start1      == InsertionStart(v1)
        end1        == start1 + InsertionEffectiveLength(v1)
        length_diff == Abs(length0 - InsertionEffectiveLength(v1))
        overlap     == Overlap(v0.coord1, v0.coord1 + length0, start1, end1)
        dist2       == 2 * Abs(v0.coord1 - start1)
        test        == ModeTest(mode, length_diff, overlap, dist2, offset, difflength)
    IN  IF test = "exit" THEN [st EXCEPT !.status = "exit"]
        ELSE IF test = "hit"
        THEN [st EXCEPT !.stats = add_hit(@, j, length_diff, dist2,
                                          Typing(trio, v1.tags), v1.var_type = "MIX")]
        ELSE st

\* for j in overlaps[i]: the candidates are small integers, which a Python set
\* yields in increasing order
RECURSIVE CandidateLoop(_, _, _, _, _, _, _, _, _, _)
CandidateLoop(kind, st, v0, another, cands, j, mode, trio, offset, difflength) ==
    IF j > Len(another) \/ st.status # "ok" THEN st
    ELSE CandidateLoop(kind,
            IF j \notin cands THEN st
            ELSE IF kind = "DEL"
            THEN DeletionCandidate(st, v0, another[j], j, mode, trio, offset, difflength)
            ELSE InsertionCandidate(st, v0, another[j], j, mode, trio, offset, difflength),
            v0, another, cands, j + 1, mode, trio, offset, difflength)

\* the VariationStatistics object created for a query variant: the deletion
\* matcher passes typing0 (line 484), the insertion matcher does not (line 592)
NewStats(kind, chromosome, i, trio, tags0) ==
    IF kind = "DEL" THEN VariationStatistics(chromosome, i, Typing(trio, tags0))
    ELSE VariationStatistics(chromosome, i, None)

\* is record v0 of self a query variant, lines 472-475 and 584-591
IsQuery(kind, v0, min_length, max_length) ==
    IF kind = "DEL"
    THEN v0.var_type = "DEL" /\ QueryLengthOk(v0.coord2 - v0.coord1, min_length, max_length)
    ELSE v0.var_type = "INS" /\ QueryLengthOk(v0.coord2, min_length, max_length)

\* stats_list.append(stats), line 515 and 630, unless the candidate loop has exited
AppendStats(acc, st) ==
    IF st.status = "ok"
    THEN [acc EXCEPT !.stats_list = Append(@, st.stats)]
    ELSE [acc EXCEPT !.status = st.status]

\* a QueryStep that gives no outcome to a query variant without candidates
QueryStepSkipUnmatched(kind, acc, chromosome, self_list, another, overlaps, i, mode, trio, opt, range) ==
    IF ~IsQuery(kind, self_list[i], range[1], range[2]) \/ overlaps[i] = {} THEN acc
    ELSE AppendStats(acc,
            CandidateLoop(kind,
                [status |-> "ok",
                 stats |-> NewStats(kind, chromosome, i, trio, self_list[i].tags)],
                self_list[i], another, overlaps[i], 1, mode, trio, opt[1], opt[2]))

\* one record i of self: skipped when it is no query variant, else its outcome
\* is appended to stats_list, lines 471-515 and 583-630
QueryStep(kind, acc, chromosome, self_list, another, overlaps, i, mode, trio, opt, range) ==
    IF ~IsQuery(kind, self_list[i], range[1], range[2]) THEN acc
    ELSE AppendStats(acc,
            CandidateLoop(kind,
                [status |-> "ok",
                 stats |-> NewStats(kind, chromosome, i, trio, self_list[i].tags)],
                self_list[i], another, overlaps[i], 1, mode, trio, opt[1], opt[2]))

\* the loop over the records i of self on one chromosome, lines 471-515 and 583-630
RECURSIVE QueryLoop(_, _, _, _, _, _, _, _, _, _, _)
QueryLoop(kind, acc, chromosome, self_list, another, overlaps, i, mode, trio, opt, range) ==
    IF i > Len(self_list) \/ acc.status # "ok" THEN acc
    ELSE QueryLoop(kind,
            QueryStep(kind, acc, chromosome, self_list, another, overlaps, i, mode, trio, opt, range),
            chromosome, self_list, another, overlaps, i + 1, mode, trio, opt, range)

\* the candidates of one chromosome: find_all_deletion_overlaps or insertion_distances
Candidates(kind, self_list, another, min_length, max_length, offset, difflength) ==
    IF kind = "DEL"
    THEN find_all_deletion_overlaps(self_list, another, min_length, max_length, offset, difflength)
    ELSE insertion_distances(self_list, another, min_length, max_length, offset, difflength)

\* one chromosome c: the sweep ov, then the loop over the records of self
ChromosomeStep(kind, acc, c, self_list, another, ov, mode, trio, opt, range) ==
    IF ov.status # "ok"
    THEN [acc EXCEPT !.status = ov.status, !.visited = @ \cup {c}]
    ELSE QueryLoop(kind, [acc EXCEPT !.visited = @ \cup {c}], c, self_list, another,
                   ov.results, 1, mode, trio, opt, range)

\* the loop over the chromosomes, lines 469-470 and 581-582
RECURSIVE ChromosomeLoop(_, _, _, _, _, _, _, _, _, _)
ChromosomeLoop(kind, acc, self, another_list, chromosomes, k, mode, trio, opt, range) ==
    IF k > Len(chromosomes) \/ acc.status # "ok" THEN acc
    ELSE ChromosomeLoop(kind,
            ChromosomeStep(kind, acc, chromosomes[k],
                Variations(self, chromosomes[k]), Variations(another_list, chromosomes[k]),
                Candidates(kind, Variations(self, chromosomes[k]),
                           Variations(another_list, chromosomes[k]),
                           range[1], range[2], opt[1], opt[2]),
                mode, trio, opt, range),
            self, another_list, chromosomes, k + 1, mode, trio, opt, range)

\* the accumulator before the first chromosome: stats_list = [], no key read yet
HitStatisticsStart == [status |-> "ok", stats_list |-> <<>>, visited |-> {}]

\* deletion_hit_statistics: [status, stats_list, visited]; status is "ok" when it
\* returns, visited are the chromosomes whose lists were read in both stores
deletion_hit_statistics(self, another_list, chromosomes, mode, trio, min_length, max_length, offset, difflength) ==
    ChromosomeLoop("DEL", HitStatisticsStart, self, another_list,
                   chromosomes, 1, mode, trio, <<offset, difflength>>,
                   <<min_length, max_length>>)

\* insertion_hit_statistics: [status, stats_list]
insertion_hit_statistics(self, another_list, chromosomes, mode, trio, min_length, max_length, offset, difflength) ==
    ChromosomeLoop("INS", HitStatisticsStart, self, another_list,
                   chromosomes, 1, mode, trio, <<offset, difflength>>,
                   <<min_length, max_length>>)

(***************************************************************************)
(* Statistics aggregator                                                   *)
(***************************************************************************)
\* the 27x27 typematrix is kept sparse: a function on the index pairs whose entry
\* is not 0; variantsums and callsums likewise on the indices whose sum is not 0
Count(m, key) == IF key \in DOMAIN m THEN m[key] ELSE 0

Incr(m, key) == [k \in (DOMAIN m) \cup {key} |-> Count(m, k) + (IF k = key THEN 1 ELSE 0)]

\* the accumulators before the loop, lines 816-829
SummaryStart ==
    [hits |-> 0, mix_hits |-> 0, length_diff_sum |-> 0, offset_sum |-> 0,
     hit_bitarray |-> <<>>, typematrix |-> <<>>, variantsums |-> <<>>, callsums |-> <<>>]

\* the matrix update for a variant with an exact hit, lines 849-851
HitUpdate(acc, typing0, typing1) ==
    IF typing0 # None /\ typing1 # None
    THEN [acc EXCEPT !.typematrix = Incr(@, <<typing0[1], typing1[1]>>),
                     !.callsums = Incr(@, typing1[1])]
    ELSE acc

\* the matrix update for a variant with neither an exact hit nor a mix hit, lines 854-856
MissUpdate(acc, typing0) ==
    IF typing0 # None
    THEN [acc EXCEPT !.typematrix = Incr(@, <<typing0[1], 0>>)]
    ELSE acc

\* variantsums[typing0] += 1 for a typed variant, lines 840-841
CountVariant(acc, typing0) ==
    IF typing0 # None THEN [acc EXCEPT !.variantsums = Incr(@, typing0[1])] ELSE acc

\* the branch of a variant with an exact hit, b being its best hit, lines 843-851
HitBranch(acc, typing0, b) ==
    HitUpdate([acc EXCEPT !.hits = @ + 1,
                          !.length_diff_sum = @ + b.length_diff,
                          !.offset_sum = @ + b.offset,
                          !.hit_bitarray = Append(@, 1)],
              typing0, b.typing)

\* the branches of a variant without an exact hit, lines 852-856
NoHitBranch(acc, st) ==
    IF is_mix_hit(st)
    THEN [acc EXCEPT !.mix_hits = @ + 1, !.hit_bitarray = Append(@, 0)]
    ELSE MissUpdate([acc EXCEPT !.hit_bitarray = Append(@, 0)], st.typing)

\* a loop body that tests for a mix hit before it tests for an exact hit
SummaryStepMixFirst(acc, st) ==
    IF is_mix_hit(st)
    THEN NoHitBranch(CountVariant(acc, st.typing), st)
    ELSE IF is_hit(st)
    THEN HitBranch(CountVariant(acc, st.typing), st.typing, get_best_hit(st))
    ELSE NoHitBranch(CountVariant(acc, st.typing), st)

\* one iteration of the loop over stats_list, lines 838-856
SummaryStep(acc, st) ==
    IF is_hit(st)
    THEN HitBranch(CountVariant(acc, st.typing), st.typing, get_best_hit(st))
    ELSE NoHitBranch(CountVariant(acc, st.typing), st)

RECURSIVE SummaryLoop(_, _, _)
SummaryLoop(acc, stats_list, i) ==
    IF i > Len(stats_list) THEN acc
    ELSE SummaryLoop(SummaryStep(acc, stats_list[i]), stats_list, i + 1)

\* the return value, lines 859-864; avg_offset divides the doubled sum by 2*hits
SummaryResult(acc, n) ==
        [hits |-> acc.hits,
         hit_rate |-> nan_div(acc.hits, n),
         mix_hit_rate |-> nan_div(acc.mix_hits, n),
         avg_length_diff |-> nan_div(acc.length_diff_sum, acc.hits),
         avg_offset |-> nan_div(acc.offset_sum, 2 * acc.hits),
         hit_bitarray |-> acc.hit_bitarray,
         typematrix |-> acc.typematrix,
         variantsums |-> acc.variantsums,
         callsums |-> acc.callsums]

summarize_variation_stats_list(stats_list) ==
    SummaryResult(SummaryLoop(SummaryStart, stats_list, 1), Len(stats_list))

\* a bundle of main's stats_lists, line 1606
Bundle(ins_prec_list, ins_recall_list, del_prec_list, del_recall_list) ==
    [ins_prec_list |-> ins_prec_list, ins_recall_list |-> ins_recall_list,
     del_prec_list |-> del_prec_list, del_recall_list |-> del_recall_list]

\* the fields set from the four summaries ip, ir, dp, dr, lines 876-910
ToolRecord(name, bundle, ip, ir, dp, dr) ==
        [name |-> name,
         insertion_count |-> Len(bundle.ins_prec_list),
         insertion_precision |-> ip.hit_rate,
         insertion_mix_hits |-> ip.mix_hit_rate,
         insertion_avg_lendiff |-> ip.avg_length_diff,
         insertion_avg_distance |-> ip.avg_offset,
         insertion_precision_types |-> ip.typematrix,
         insertion_precision_varsums |-> ip.variantsums,
         insertion_precision_callsums |-> ip.callsums,
         insertion_recall |-> ir.hit_rate,
         insertion_f |-> f_measure(ip.hit_rate, ir.hit_rate),
         insertion_recall_types |-> ir.typematrix,
         insertion_recall_varsums |-> ir.variantsums,
         insertion_recall_callsums |-> ir.callsums,
         insertion_exclusivity |-> None,
         deletion_count |-> Len(bundle.del_prec_list),
         deletion_precision |-> dp.hit_rate,
         deletion_mix_hits |-> dp.mix_hit_rate,
         deletion_avg_lendiff |-> dp.avg_length_diff,
         deletion_avg_distance |-> dp.avg_offset,
         deletion_precision_types |-> dp.typematrix,
         deletion_precision_varsums |-> dp.variantsums,
         deletion_precision_callsums |-> dp.callsums,
         deletion_recall |-> dr.hit_rate,
         deletion_f |-> f_measure(dp.hit_rate, dr.hit_rate),
         deletion_recall_types |-> dr.typematrix,
         deletion_recall_varsums |-> dr.variantsums,
         deletion_recall_callsums |-> dr.callsums,
         deletion_exclusivity |-> None]

\* the first loop of aggregate_toolwise_statistics for one tool, lines 875-911
ToolStatistics(name, bundle) ==
    ToolRecord(name, bundle,
               summarize_variation_stats_list(bundle.ins_prec_list),
               summarize_variation_stats_list(bundle.ins_recall_list),
               summarize_variation_stats_list(bundle.del_prec_list),
               summarize_variation_stats_list(bundle.del_recall_list))

\* a | b and a & ~b on bit-vectors of equal length
BitOr(a, b) == [k \in DOMAIN a |-> IF a[k] = 1 \/ b[k] = 1 THEN 1 ELSE 0]

BitAndNot(a, b) == [k \in DOMAIN a |-> IF a[k] = 1 /\ b[k] = 0 THEN 1 ELSE 0]

BitCount(a) == Cardinality({k \in DOMAIN a : a[k] = 1})

\* the recall bit-vectors of the other tools, or-ed together, lines 916-925
RECURSIVE RecallOthers(_, _, _, _)
RecallOthers(bitarrays, tool_idx, i, acc) ==
    IF i > Len(bitarrays) THEN acc
    ELSE RecallOthers(bitarrays, tool_idx, i + 1,
                      IF i = tool_idx THEN acc ELSE BitOr(acc, bitarrays[i]))

\* ExclusiveHits whose recall_others also takes in the tool's own bits
ExclusiveHitsAgainstAll(bitarrays, tool_idx) ==
    BitAndNot(bitarrays[tool_idx],
              RecallOthers(bitarrays, 0, 1, [k \in DOMAIN bitarrays[tool_idx] |-> 0]))

\* exclusive hits of a tool: its recall bits that no other tool has, lines 926-927
ExclusiveHits(bitarrays, tool_idx) ==
    BitAndNot(bitarrays[tool_idx],
              RecallOthers(bitarrays, tool_idx, 1,
                           [k \in DOMAIN bitarrays[tool_idx] |-> 0]))

\* an exclusivity that is 0 when there is no true variant
ExclusivityZero(bitarrays, tool_idx) ==
    IF Len(bitarrays[tool_idx]) = 0 THEN <<0, 1>>
    ELSE Quot(BitCount(ExclusiveHits(bitarrays, tool_idx)), Len(bitarrays[tool_idx]))

\* nan_div(exclusive_hits.count(), float(total)), lines 928-929
Exclusivity(bitarrays, tool_idx) ==
    nan_div(BitCount(ExclusiveHits(bitarrays, tool_idx)), Len(bitarrays[tool_idx]))

\* the asserts of the exclusivity loop, lines 922 and 924
BitarrayLengthsOk(bitarrays) ==
    \A i, j \in 1..Len(bitarrays) : Len(bitarrays[i]) = Len(bitarrays[j])

insertion_recall_bitarrays(lists) ==
    [t \in 1..Len(lists) |-> summarize_variation_stats_list(lists[t].ins_recall_list).hit_bitarray]

deletion_recall_bitarrays(lists) ==
    [t \in 1..Len(lists) |-> summarize_variation_stats_list(lists[t].del_recall_list).hit_bitarray]

\* an aggregation that summarizes the first tool's bundle for every tool
AggregateResultFirstBundle(lists, tool_names, ins, del) ==
    IF Len(tool_names) # Len(lists) \/ ~BitarrayLengthsOk(ins) \/ ~BitarrayLengthsOk(del)
    THEN [status |-> "AssertionError", result |-> <<>>]
    ELSE [status |-> "ok",
          result |-> [t \in 1..Len(lists) |->
              [ToolStatistics(tool_names[t], lists[1]) EXCEPT
                  !.insertion_exclusivity = Exclusivity(ins, t),
                  !.deletion_exclusivity = Exclusivity(del, t)]]]

\* the loops of aggregate_toolwise_statistics over the tools, given the recall
\* bit-vectors ins and del of all tools
AggregateResult(lists, tool_names, ins, del) ==
    IF Len(tool_names) # Len(lists) \/ ~BitarrayLengthsOk(ins) \/ ~BitarrayLengthsOk(del)
    THEN [status |-> "AssertionError", result |-> <<>>]
    ELSE [status |-> "ok",
          result |-> [t \in 1..Len(lists) |->
              [ToolStatistics(tool_names[t], lists[t]) EXCEPT
                  !.insertion_exclusivity = Exclusivity(ins, t),
                  !.deletion_exclusivity = Exclusivity(del, t)]]]

\* aggregate_toolwise_statistics: [status, result]
aggregate_toolwise_statistics(lists, tool_names) ==
    AggregateResult(lists, tool_names,
                    insertion_recall_bitarrays(lists), deletion_recall_bitarrays(lists))

(***************************************************************************)
(* Inputs: the records of the input files and the command lines            *)
(***************************************************************************)
\* a parsed line of an input file: chromosome, coordinates, kind, and the GT strings
\* of mother, father and child
Line(chromosome, coord1, coord2, coord3, var_type, family) ==
    [chromosome |-> chromosome, coord1 |-> coord1, coord2 |-> coord2,
     coord3 |-> coord3, var_type |-> var_type, family |-> family]

\* the options of a run on one prediction file and one length range
Opts(mode, trio, offset, difflength, min_length, max_length) ==
    [mode |-> mode, trio |-> trio, offset |-> offset, difflength |-> difflength,
     min_length |-> min_length, max_length |-> max_length, tool_names |-> <<"tool">>]

\* deletions that overlap, touch, are shorter than 5, and a MIX event
DelLines ==
    { Line("chr1", 0, 5, None, "DEL", <<"0/0", "0/1", "1|0">>),
      Line("chr1", 5, 10, None, "DEL", <<"./1", "0|0", "1/.">>),
      Line("chr1", 3, 9, None, "DEL", <<"./.", "1/1", "0/1">>),
      Line("chr1", 4, 7, None, "DEL", <<"1|0", "./1", "1|1">>),
      Line("chr1", 2, 9, Some(1), "MIX", <<"1/1", "1|1", "1/1">>) }

\* a deletion of length 0, a second chromosome, an absent genotype, GT strings that
\* are none of the recognised ones
EdgeLines ==
    { Line("chr1", 5, 5, None, "DEL", <<"0/0", "0|0", "1/.">>),
      Line("chr1", 2, 8, None, "DEL", <<"./.", "0/0", "0|0">>),
      Line("chr2", 3, 9, None, "DEL", <<"1/2", "0/1", "x">>),
      Line("chr1", 3, 5, None, "INS", <<"./.", "1/.", "0/0">>),
      Line("chr1", 6, 0, None, "INS", <<"0|0", "0/1", "1|1">>) }

\* insertions [pos, pos+length] that overlap, touch, are shorter than 5, and a MIX event
InsLines ==
    { Line("chr1", 2, 5, None, "INS", <<"./.", "1|0", "./1">>),
      Line("chr1", 7, 5, None, "INS", <<"1/.", "0/0", "0/1">>),
      Line("chr1", 4, 6, None, "INS", <<"0|0", "1/1", "1|0">>),
      Line("chr1", 4, 3, None, "INS", <<"./1", "1/.", "1|1">>),
      Line("chr1", 4, 6, Some(8), "MIX", <<"1/1", "1|1", "1/1">>) }

\* the end-to-end scenario: truth chr1:100-200, prediction chr1:105-195
ScenarioLines ==
    { Line("chr1", 100, 200, None, "DEL", <<"./.", "0/1", "1|0">>),
      Line("chr1", 105, 195, None, "DEL", <<"0/0", "./1", "1/.">>),
      Line("chr1", 150, 90, None, "INS", <<"0/1", "1|0", "./1">>),
      Line("chr1", 160, 100, None, "INS", <<"1/.", "0/1", "0|0">>) }

Lines(family) ==
    IF family = "del" THEN DelLines
    ELSE IF family = "edge" THEN EdgeLines
    ELSE IF family = "ins" THEN InsLines
    ELSE ScenarioLines

\* the command lines tried with each family of input files; main sets offset to
\* None unless the mode is fixed_distance (lines 1586-1587)
CommandLines(family) ==
    IF family = "del"
    THEN { Opts("overlap", FALSE, None, 1, 3, 6),
           Opts("overlap", TRUE, None, 0, 5, 6),
           Opts("fixed_distance", FALSE, Some(6), 1, 3, 6),
           Opts("fixed_distance", TRUE, Some(2), 0, 5, 7) }
    ELSE IF family = "edge"
    THEN { Opts("overlap", TRUE, None, 1, 0, 6),
           Opts("fixed_distance", FALSE, Some(3), 5, 0, 6),
           Opts("significant", FALSE, Some(1), 0, 5, 6) }
    ELSE IF family = "ins"
    THEN { Opts("overlap", FALSE, None, 1, 3, 6),
           Opts("overlap", TRUE, None, 0, 5, 6),
           Opts("fixed_distance", TRUE, Some(6), 1, 3, 6),
           Opts("fixed_distance", FALSE, Some(2), 0, 5, 7) }
    ELSE { Opts("fixed_distance", FALSE, Some(50), 20, 90, 100),
           Opts("fixed_distance", TRUE, Some(50), 20, 49, 98),
           Opts("fixed_distance", FALSE, Some(50), 20, 9, 248) }

Families == {"del", "edge", "ins", "scenario"}

(***************************************************************************)
(* main                                                                    *)
(***************************************************************************)
\* the most records read from the truth file and from the prediction file
MaxTruth == 2

MaxPred == 1

RECURSIVE SumLen(_, _)
SumLen(variations, chroms) ==
    IF chroms = {} THEN 0
    ELSE LET c == CHOOSE x \in chroms : TRUE
         IN  Len(variations[c]) + SumLen(variations, chroms \ {c})

\* the number of records of a store
NumRecords(variations) == SumLen(variations, DOMAIN variations)

\* VariationList.__init__ on one more line of the file, lines 291-315
LoadLine(variations, istrio, line) ==
    IF SkippedAtLoad(istrio, line.family) THEN variations
    ELSE AppendVariation(variations, line.chromosome,
             Variation(line.coord1, line.coord2, line.coord3, line.var_type,
                       StoredGenotype(istrio, line.family)))

\* the order in which the set chromosomes is iterated: some fixed order
ChromOrder == <<"chr1", "chr2">>

RECURSIVE Restrict(_, _)
Restrict(seq, set) ==
    IF seq = <<>> THEN <<>>
    ELSE (IF Head(seq) \in set THEN <<Head(seq)>> ELSE <<>>) \o Restrict(Tail(seq), set)

\* chromosomes: the keys of the truth store and of the prediction store, lines 1556-1559
Chromosomes(truth, preds) ==
    Restrict(ChromOrder, get_chromosomes(truth) \cup get_chromosomes(preds))

\* a main that lets the mode 'significant' through
ModeAcceptedSignificant(mode) == mode \in {"overlap", "fixed_distance", "significant"}

\* the modes main accepts, lines 1569-1575: 'significant' is rejected too
ModeAccepted(mode) == mode \in {"overlap", "fixed_distance"}

\* the four calls of main's loop body for one prediction file, lines 1602-1605
DelRecall(truth, preds, o) ==
    deletion_hit_statistics(truth, preds, Chromosomes(truth, preds), o.mode, o.trio,
                            o.min_length, o.max_length, o.offset, o.difflength)

DelPrec(truth, preds, o) ==
    deletion_hit_statistics(preds, truth, Chromosomes(truth, preds), o.mode, o.trio,
                            o.min_length, o.max_length, o.offset, o.difflength)

InsRecall(truth, preds, o) ==
    insertion_hit_statistics(truth, preds, Chromosomes(truth, preds), o.mode, o.trio,
                             o.min_length, o.max_length, o.offset, o.difflength)

InsPrec(truth, preds, o) ==
    insertion_hit_statistics(preds, truth, Chromosomes(truth, preds), o.mode, o.trio,
                             o.min_length, o.max_length, o.offset, o.difflength)

\* the calls that raised, among the four calls in their order
Failed(calls) == {k \in 1..4 : calls[k].status # "ok"}

\* the first call that raised; 5 when none did
FirstFailed(calls) ==
    IF Failed(calls) = {} THEN 5
    ELSE CHOOSE k \in Failed(calls) : \A l \in Failed(calls) : k <= l

\* the outcome of the four calls <<del recall, del precision, ins recall, ins precision>>
\* made in this order; the first one that raises ends the run
MatchResult(calls) ==
    [status |-> IF Failed(calls) = {} THEN "ok" ELSE calls[FirstFailed(calls)].status,
     bundle |-> Bundle(calls[4].stats_list, calls[3].stats_list,
                       calls[2].stats_list, calls[1].stats_list),
     visited |-> UNION {calls[k].visited : k \in {l \in 1..4 : l <= FirstFailed(calls)}}]

MatchRun(truth, preds, o) ==
    MatchResult(<<DelRecall(truth, preds, o), DelPrec(truth, preds, o),
                  InsRecall(truth, preds, o), InsPrec(truth, preds, o)>>)

\* the value of best while get_best_hit has not been called on the current hit list
NotCalled == [called |-> FALSE]

NoStats == VariationStatistics("chr1", 1, None)

Init ==
    /\ pc = "load"
    /\ input \in Families
    /\ options \in CommandLines(input)
    /\ true_variants = <<>>
    /\ predictions = <<>>
    /\ stats_lists = <<>>
    /\ results = None
    /\ stats = NoStats
    /\ best = NotCalled

\* true_variants = VariationList(args[0], options.trio) reads one more line
LoadTruth ==
    /\ pc = "load"
    /\ predictions = <<>>
    /\ NumRecords(true_variants) < MaxTruth
    /\ \E line \in Lines(input) :
          true_variants' = LoadLine(true_variants, options.trio, line)
    /\ UNCHANGED <<pc, options, input, predictions, stats_lists, results, stats, best>>

\* VariationList(filename, options.trio) of the prediction file reads one more line
LoadPrediction ==
    /\ pc = "load"
    /\ NumRecords(predictions) < MaxPred
    /\ \E line \in Lines(input) :
          predictions' = LoadLine(predictions, options.trio, line)
    /\ UNCHANGED <<pc, options, input, true_variants, stats_lists, results, stats, best>>

\* main returns 1 for a mode it does not accept, lines 1569-1575
RejectMode ==
    /\ pc = "load"
    /\ ~ModeAccepted(options.mode)
    /\ pc' = "rejected"
    /\ UNCHANGED <<options, input, true_variants, predictions, stats_lists, results, stats, best>>

\* the body of main's loop over the length ranges for the prediction file, lines
\* 1598-1609; a call that raises aborts main
StoreRun(run) ==
    /\ true_variants' = Touched(true_variants, run.visited)
    /\ predictions' = Touched(predictions, run.visited)
    /\ stats_lists' = IF run.status = "ok" THEN Append(stats_lists, run.bundle)
                      ELSE stats_lists
    /\ pc' = IF run.status = "ok" THEN "aggregate" ELSE run.status

ComputeStatistics ==
    /\ pc = "load"
    /\ ModeAccepted(options.mode)
    /\ StoreRun(MatchRun(true_variants, predictions, options))
    /\ UNCHANGED <<options, input, results, stats, best>>

\* results.append(aggregate_toolwise_statistics(stats_lists, tool_names)), line 1610
StoreResults(agg) ==
    /\ results' = IF agg.status = "ok" THEN Some(agg.result) ELSE results
    /\ pc' = IF agg.status = "ok" THEN "done" ELSE agg.status

Aggregate ==
    /\ pc = "aggregate"
    /\ StoreResults(aggregate_toolwise_statistics(stats_lists, options.tool_names))
    /\ UNCHANGED <<options, input, true_variants, predictions, stats_lists, stats, best>>

Next == LoadTruth \/ LoadPrediction \/ RejectMode \/ ComputeStatistics \/ Aggregate

Spec == Init /\ [][Next]_vars

(***************************************************************************)
(* The aggregator on its own: bundles of several tools                     *)
(***************************************************************************)
\* the most true variants (insertions plus deletions) of the length range
MaxRecall == 2

\* outcomes of a query variant: a miss, an exact hit, mix hits only
Miss == VariationStatistics("chr1", 1, None)

ExactHit == add_hit(Miss, 1, 0, 0, None, FALSE)

MixOnly == add_hit(Miss, 1, 0, 0, None, TRUE)

Outcomes == {Miss, ExactHit, MixOnly}

\* all lists of n outcomes
OutcomeLists(n) == [1..n -> Outcomes]

ToolNameLists == {<<"A">>, <<"A", "B">>, <<"A", "B", "C">>}

\* the precision lists (insertions, deletions) used with each tool
PrecLists(name) ==
    IF name = "A" THEN <<<<>>, <<ExactHit>>>>
    ELSE IF name = "B" THEN <<<<ExactHit, Miss>>, <<MixOnly>>>>
    ELSE <<<<MixOnly>>, <<>>>>

\* the numbers of true insertions and of true deletions
RecallSizes == {nn \in (0..MaxRecall) \X (0..MaxRecall) : nn[1] + nn[2] <= MaxRecall}

InitAgg ==
    /\ pc = "bundles"
    /\ input = "bundles"
    /\ options \in {[tool_names |-> names] : names \in ToolNameLists}
    /\ true_variants = <<>>
    /\ predictions = <<>>
    /\ stats_lists = <<>>
    /\ results = None
    /\ stats = NoStats
    /\ best = NotCalled

\* stats_lists.append(...) for the next tool, line 1606: the recall lists of all
\* tools have one entry per true variant of the length range
AppendBundle ==
    /\ pc = "bundles"
    /\ \E nn \in RecallSizes :
       \E ir \in OutcomeLists(nn[1]), dr \in OutcomeLists(nn[2]) :
          /\ stats_lists # <<>> =>
                /\ Len(stats_lists[1].ins_recall_list) = nn[1]
                /\ Len(stats_lists[1].del_recall_list) = nn[2]
          /\ stats_lists' = Append(stats_lists,
                Bundle(PrecLists(options.tool_names[Len(stats_lists) + 1])[1], ir,
                       PrecLists(options.tool_names[Len(stats_lists) + 1])[2], dr))
    /\ pc' = IF Len(stats_lists) + 1 = Len(options.tool_names) THEN "aggregate" ELSE pc
    /\ UNCHANGED <<options, input, true_variants, predictions, results, stats, best>>

NextAgg == AppendBundle \/ Aggregate

SpecAgg == InitAgg /\ [][NextAgg]_vars

(***************************************************************************)
(* One VariationStatistics object on its own                               *)
(***************************************************************************)
\* the most exact hits and the most mix hits added to the object
MaxHits == 3

MaxMixHits == 1

LengthDiffs == {0, 1, 2}

\* center distances in half units
Distances == {0, 3, 4}

InitBest ==
    /\ pc = "outcome"
    /\ input = "outcome"
    /\ options = [tool_names |-> <<>>]
    /\ true_variants = <<>>
    /\ predictions = <<>>
    /\ stats_lists = <<>>
    /\ results = None
    /\ stats = NoStats
    /\ best = NotCalled

\* stats.add_hit(j, length_diff, offset, typing, mix_hit); an earlier return value
\* of get_best_hit is no longer the one of the current list
AddHit ==
    /\ pc = "outcome"
    /\ \E length_diff \in LengthDiffs, offset \in Distances, mix_hit \in BOOLEAN :
          /\ IF mix_hit THEN Len(stats.mix_hits) < MaxMixHits /\ length_diff = 0 /\ offset = 0
             ELSE Len(stats.hits) < MaxHits
          /\ stats' = add_hit(stats, Len(stats.hits) + Len(stats.mix_hits) + 1,
                              length_diff, offset, None, mix_hit)
    /\ best' = NotCalled
    /\ UNCHANGED <<pc, options, input, true_variants, predictions, stats_lists, results>>

\* best = stats.get_best_hit()
GetBestHit ==
    /\ pc = "outcome"
    /\ best' = get_best_hit(stats)
    /\ UNCHANGED <<pc, options, input, true_variants, predictions, stats_lists, results, stats>>

NextBest == AddHit \/ GetBestHit

SpecBest == InitBest /\ [][NextBest]_vars

(***************************************************************************)
(* index_from_type and typedict on pairs of genotype strings               *)
(***************************************************************************)
\* the genotype strings of a trio: three characters out of '0', '1', '2'
Genostrings == {<<a, b, c>> : a \in 0..2, b \in 0..2, c \in 0..2}

InitType ==
    /\ pc = "encode"
    /\ input \in Genostrings \X Genostrings
    /\ options = [tool_names |-> <<>>]
    /\ true_variants = <<>>
    /\ predictions = <<>>
    /\ stats_lists = <<>>
    /\ results = None
    /\ stats = NoStats
    /\ best = NotCalled

\* typing = index_from_type(tags) for both strings, lines 479, 488
Encode ==
    /\ pc = "encode"
    /\ results' = Some(<<index_from_type(input[1]), index_from_type(input[2])>>)
    /\ pc' = "decode"
    /\ UNCHANGED <<options, input, true_variants, predictions, stats_lists, stats, best>>

\* idx_to_triotype[index] for both indices, lines 934-941
Decode ==
    /\ pc = "decode"
    /\ results' = Some(<<idx_to_triotype[results[1][1]], idx_to_triotype[results[1][2]]>>)
    /\ pc' = "decoded"
    /\ UNCHANGED <<options, input, true_variants, predictions, stats_lists, stats, best>>

\* the cells the pattern and membership matrices add an entry of the type matrix
\* to: type2trio[i], type2trio[j] (line 1173) and type2member[i], type2member[j]
\* (line 1072)
Classify ==
    /\ pc = "decode"
    /\ results' = Some([trio |-> <<type2trio[results[1][1] + 1], type2trio[results[1][2] + 1]>>,
                        member |-> <<type2member[results[1][1] + 1],
                                     type2member[results[1][2] + 1]>>])
    /\ pc' = "classified"
    /\ UNCHANGED <<options, input, true_variants, predictions, stats_lists, stats, best>>

NextType == Encode \/ Decode \/ Classify

SpecType == InitType /\ [][NextType]_vars

(***************************************************************************)
(* f_measure on pairs of rates                                             *)
(***************************************************************************)
\* the largest number of outcomes a rate given to f_measure is computed from
MaxOutcomes == 4

\* the values of a recall or precision: None, or nan_div(hits, n) with hits <= n
Rates == {None} \cup UNION {{nan_div(hits, n) : hits \in 0..n} : n \in 0..MaxOutcomes}

InitF ==
    /\ pc = "call"
    /\ input \in Rates \X Rates
    /\ options = [tool_names |-> <<>>]
    /\ true_variants = <<>>
    /\ predictions = <<>>
    /\ stats_lists = <<>>
    /\ results = <<>>
    /\ stats = NoStats
    /\ best = NotCalled

\* f_measure(recall, precision) on the pair <<recall, precision>>
FMeasure ==
    /\ pc = "call"
    /\ results' = <<f_measure(input[1], input[2])>>
    /\ pc' = "swap"
    /\ UNCHANGED <<options, input, true_variants, predictions, stats_lists, stats, best>>

\* f_measure(precision, recall), the order of the arguments at lines 890 and 906
FMeasureSwapped ==
    /\ pc = "swap"
    /\ results' = Append(results, f_measure(input[2], input[1]))
    /\ pc' = "returned"
    /\ UNCHANGED <<options, input, true_variants, predictions, stats_lists, stats, best>>

NextF == FMeasure \/ FMeasureSwapped

SpecF == InitF /\ [][NextF]_vars

(***************************************************************************)
(* The matchers called on loaded stores with any mode                      *)
(***************************************************************************)
\* the arguments of direct calls of deletion_hit_statistics and
\* insertion_hit_statistics: a mode that is none of the three known ones, and the
\* two modes main lets through
CallOptions ==
    { Opts("bogus", FALSE, None, 1, 3, 6),
      Opts("bogus", TRUE, Some(2), 0, 5, 7),
      Opts("overlap", FALSE, None, 1, 3, 6),
      Opts("fixed_distance", TRUE, Some(2), 0, 5, 7) }

InitCall ==
    /\ pc = "load"
    /\ input \in {"del", "edge", "ins"}
    /\ options \in CallOptions
    /\ true_variants = <<>>
    /\ predictions = <<>>
    /\ stats_lists = <<>>
    /\ results = None
    /\ stats = NoStats
    /\ best = NotCalled

\* the four calls of lines 1602-1605 made with the given mode, whatever it is; pc
\* becomes "aggregate" when all four have returned their list
CallHitStatistics ==
    /\ pc = "load"
    /\ StoreRun(MatchRun(true_variants, predictions, options))
    /\ UNCHANGED <<options, input, results, stats, best>>

NextCall == LoadTruth \/ LoadPrediction \/ CallHitStatistics

SpecCall == InitCall /\ [][NextCall]_vars

(***************************************************************************)
(* Aggregation of several tools, one tool's bundle being exchanged         *)
(***************************************************************************)
\* bundles of tools run against one true insertion and two true deletions; two
\* predictions hit with a length difference and a distance that are not 0
ToolBundles ==
    { Bundle(<<>>, <<Miss>>, <<ExactHit>>, <<ExactHit, Miss>>),
      Bundle(<<add_hit(Miss, 2, 3, 4, None, FALSE), Miss>>, <<ExactHit>>, <<MixOnly>>,
             <<Miss, ExactHit>>),
      Bundle(<<MixOnly>>, <<ExactHit>>, <<>>, <<ExactHit, ExactHit>>),
      Bundle(<<ExactHit>>, <<MixOnly>>, <<add_hit(Miss, 2, 1, 2, None, FALSE)>>,
             <<Miss, Miss>>) }

\* the stats_lists of main's loop for two or three tools, lines 1600-1606
InitTools ==
    /\ pc = "aggregate"
    /\ input = "bundles"
    /\ options \in {[tool_names |-> names] : names \in {<<"A", "B">>, <<"A", "B", "C">>}}
    /\ true_variants = <<>>
    /\ predictions = <<>>
    /\ stats_lists \in [1..Len(options.tool_names) -> ToolBundles]
    /\ results = None
    /\ stats = NoStats
    /\ best = NotCalled

\* the same run with another prediction file for tool u: its bundle is another one,
\* the bundles of the other tools are the same; best keeps the records of the
\* aggregation before and the tool that was exchanged
ExchangeBundle ==
    /\ pc = "done"
    /\ best = NotCalled
    /\ \E u \in 1..Len(stats_lists) : \E bundle \in ToolBundles \ {stats_lists[u]} :
          /\ stats_lists' = [stats_lists EXCEPT ![u] = bundle]
          /\ best' = [called |-> FALSE, before |-> results[1], exchanged |-> u]
    /\ pc' = "aggregate"
    /\ results' = None
    /\ UNCHANGED <<options, input, true_variants, predictions, stats>>

NextTools == Aggregate \/ ExchangeBundle

SpecTools == InitTools /\ [][NextTools]_vars

(***************************************************************************)
(* main with two prediction files                                          *)
(***************************************************************************)
\* the four calls of main's loop body for one prediction store, lines 1602-1605,
\* with the chromosomes main has computed for all files
ToolRun(truth, preds, chroms, o) ==
    MatchResult(<<
        deletion_hit_statistics(truth, preds, chroms, o.mode, o.trio,
                                o.min_length, o.max_length, o.offset, o.difflength),
        deletion_hit_statistics(preds, truth, chroms, o.mode, o.trio,
                                o.min_length, o.max_length, o.offset, o.difflength),
        insertion_hit_statistics(truth, preds, chroms, o.mode, o.trio,
                                 o.min_length, o.max_length, o.offset, o.difflength),
        insertion_hit_statistics(preds, truth, chroms, o.mode, o.trio,
                                 o.min_length, o.max_length, o.offset, o.difflength)>>)

\* a run with two prediction files and a mode main accepts; predictions is the
\* list predictions_lists
InitTwo ==
    /\ pc = "load"
    /\ input \in {"del", "edge", "ins"}
    /\ options \in {[o EXCEPT !.tool_names = <<"first", "second">>] :
                      o \in {c \in CommandLines(input) : ModeAccepted(c.mode)}}
    /\ true_variants = <<>>
    /\ predictions = <<>>
    /\ stats_lists = <<>>
    /\ results = None
    /\ stats = NoStats
    /\ best = NotCalled

\* the loop of lines 1550-1552 over two prediction files of one line each
LoadPredictionFiles ==
    /\ pc = "load"
    /\ predictions = <<>>
    /\ \E first \in Lines(input), second \in Lines(input) :
          predictions' = <<LoadLine(<<>>, options.trio, first),
                           LoadLine(<<>>, options.trio, second)>>
    /\ UNCHANGED <<pc, options, input, true_variants, stats_lists, results, stats, best>>

\* main's loop over the two prediction stores, lines 1598-1606, given the runs of
\* both; a call that raises aborts main
StoreRuns(first, second) ==
    /\ true_variants' = Touched(true_variants,
                                first.visited \cup (IF first.status = "ok"
                                                    THEN second.visited ELSE {}))
    /\ predictions' = <<Touched(predictions[1], first.visited),
                        IF first.status = "ok"
                        THEN Touched(predictions[2], second.visited)
                        ELSE predictions[2]>>
    /\ stats_lists' = IF first.status # "ok" THEN <<>>
                      ELSE IF second.status # "ok" THEN <<first.bundle>>
                      ELSE <<first.bundle, second.bundle>>
    /\ pc' = IF first.status # "ok" THEN first.status
             ELSE IF second.status # "ok" THEN second.status
             ELSE "aggregate"

\* chromosomes is the union of the keys of all stores, lines 1556-1559
ComputeStatisticsAll ==
    /\ pc = "load"
    /\ Len(predictions) = 2
    /\ StoreRuns(ToolRun(true_variants, predictions[1],
                         Restrict(ChromOrder, get_chromosomes(true_variants)
                                    \cup get_chromosomes(predictions[1])
                                    \cup get_chromosomes(predictions[2])), options),
                 ToolRun(true_variants, predictions[2],
                         Restrict(ChromOrder, get_chromosomes(true_variants)
                                    \cup get_chromosomes(predictions[1])
                                    \cup get_chromosomes(predictions[2])), options))
    /\ UNCHANGED <<options, input, results, stats, best>>

NextTwo == LoadTruth \/ LoadPredictionFiles \/ ComputeStatisticsAll \/ Aggregate

SpecTwo == InitTwo /\ [][NextTwo]_vars

(***************************************************************************)
(* main run again on the same files with raised tolerances                 *)
(***************************************************************************)
\* what is added to the value of -z, of -o or of both for the second run
MaxRaise == 2

\* a run in fixed_distance mode
InitTol ==
    /\ pc = "load"
    /\ input \in {"del", "edge", "ins"}
    /\ options \in {c \in CommandLines(input) : c.mode = "fixed_distance"}
    /\ true_variants = <<>>
    /\ predictions = <<>>
    /\ stats_lists = <<>>
    /\ results = None
    /\ stats = NoStats
    /\ best = NotCalled

\* the program started again on the files of a run that has computed its bundle,
\* with -z and -o not smaller than before: lines 1598-1606 with the new options;
\* stats_lists keeps the bundle of the first run before the one of the second
RaiseTolerance ==
    /\ pc = "aggregate"
    /\ Len(stats_lists) = 1
    /\ \E more_offset \in {0, MaxRaise}, more_difflength \in {0, MaxRaise} :
          /\ more_offset + more_difflength > 0
          /\ options' = [options EXCEPT !.offset = Some(@[1] + more_offset),
                                        !.difflength = @ + more_difflength]
          /\ StoreRun(MatchRun(true_variants, predictions,
                               [options EXCEPT !.offset = Some(@[1] + more_offset),
                                               !.difflength = @ + more_difflength]))
    /\ UNCHANGED <<input, results, stats, best>>

NextTol == LoadTruth \/ LoadPrediction \/ ComputeStatistics \/ RaiseTolerance

SpecTol == InitTol /\ [][NextTol]_vars

(***************************************************************************)
(* The best values of several tools: ToolStatistics.improve                *)
(***************************************************************************)
\* a nonemin that returns the larger of two numbers
nonemin_larger(v1, v2) ==
    IF v1 = None THEN v2
    ELSE IF v2 = None THEN v1
    ELSE IF IsNaN(v1) THEN v2
    ELSE IF IsNaN(v2) THEN v1
    ELSE IF v2[1] * v1[2] > v1[1] * v2[2] THEN v2 ELSE v1

\* nonemax, lines 113-119; max(v1, v2) is v2 if v2 > v1 and v1 otherwise
nonemax(v1, v2) ==
    IF v1 = None THEN v2
    ELSE IF v2 = None THEN v1
    ELSE IF IsNaN(v1) THEN v2
    ELSE IF IsNaN(v2) THEN v1
    ELSE IF v2[1] * v1[2] > v1[1] * v2[2] THEN v2 ELSE v1

\* nonemin, lines 121-127; min(v1, v2) is v2 if v2 < v1 and v1 otherwise
nonemin(v1, v2) ==
    IF v1 = None THEN v2
    ELSE IF v2 = None THEN v1
    ELSE IF IsNaN(v1) THEN v2
    ELSE IF IsNaN(v2) THEN v1
    ELSE IF v2[1] * v1[2] < v1[1] * v2[2] THEN v2 ELSE v1

\* ToolStatistics.__init__, lines 135-165: every field but the name is None
NewToolStatistics(name) ==
    [name |-> name,
     insertion_count |-> None, insertion_recall |-> None, insertion_precision |-> None,
     insertion_mix_hits |-> None, insertion_exclusivity |-> None,
     insertion_avg_lendiff |-> None, insertion_avg_distance |-> None,
     insertion_f |-> None, insertion_precision_types |-> None,
     insertion_precision_varsums |-> None, insertion_precision_callsums |-> None,
     insertion_recall_types |-> None, insertion_recall_varsums |-> None,
     insertion_recall_callsums |-> None,
     deletion_count |-> None, deletion_recall |-> None, deletion_precision |-> None,
     deletion_mix_hits |-> None, deletion_exclusivity |-> None,
     deletion_avg_lendiff |-> None, deletion_avg_distance |-> None,
     deletion_f |-> None, deletion_precision_types |-> None,
     deletion_precision_varsums |-> None, deletion_precision_callsums |-> None,
     deletion_recall_types |-> None, deletion_recall_varsums |-> None,
     deletion_recall_callsums |-> None]

\* ToolStatistics.improve, lines 167-183: self after self.improve(results)
improve(self, tool) ==
    [self EXCEPT
        !.name = None,
        !.insertion_recall = nonemax(@, tool.insertion_recall),
        !.insertion_precision = nonemax(@, tool.insertion_precision),
        !.insertion_mix_hits = nonemax(@, tool.insertion_mix_hits),
        !.insertion_exclusivity = nonemax(@, tool.insertion_exclusivity),
        !.insertion_avg_lendiff = nonemin(@, tool.insertion_avg_lendiff),
        !.insertion_avg_distance = nonemin(@, tool.insertion_avg_distance),
        !.insertion_f = nonemax(@, tool.insertion_f),
        !.deletion_recall = nonemax(@, tool.deletion_recall),
        !.deletion_precision = nonemax(@, tool.deletion_precision),
        !.deletion_mix_hits = nonemax(@, tool.deletion_mix_hits),
        !.deletion_exclusivity = nonemax(@, tool.deletion_exclusivity),
        !.deletion_avg_lendiff = nonemin(@, tool.deletion_avg_lendiff),
        !.deletion_avg_distance = nonemin(@, tool.deletion_avg_distance),
        !.deletion_f = nonemax(@, tool.deletion_f)]

\* best = ToolStatistics(), lines 1359 and 1383, for the results of a length range;
\* best.improved lists the tools best.self was improved with
NewBest ==
    /\ pc = "done"
    /\ best = NotCalled
    /\ best' = [self |-> NewToolStatistics(None), improved |-> <<>>]
    /\ pc' = "improve"
    /\ UNCHANGED <<options, input, true_variants, predictions, stats_lists, results, stats>>

\* best.improve(tool_stats), lines 1361 and 1385, for a tool not taken yet; the
\* tools are taken in any order
Improve ==
    /\ pc = "improve"
    /\ \E t \in 1..Len(results[1]) :
          /\ \A k \in 1..Len(best.improved) : best.improved[k] # t
          /\ best' = [self |-> improve(best.self, results[1][t]),
                      improved |-> Append(best.improved, t)]
    /\ UNCHANGED <<pc, options, input, true_variants, predictions, stats_lists, results,
                   stats>>

NextImprove == Aggregate \/ NewBest \/ Improve

SpecImprove == InitTools /\ [][NextImprove]_vars

(***************************************************************************)
(* Properties of the matcher                                               *)
(***************************************************************************)
\* main has computed the four outcome lists of the prediction file
Matched == pc \in {"aggregate", "done"}

Chroms == (DOMAIN true_variants) \cup (DOMAIN predictions)

\* the four runs of the matcher: kind, query store, target store, outcome list
Runs ==
    { [kind |-> "DEL", self |-> true_variants, other |-> predictions,
       list |-> stats_lists[1].del_recall_list],
      [kind |-> "DEL", self |-> predictions, other |-> true_variants,
       list |-> stats_lists[1].del_prec_list],
      [kind |-> "INS", self |-> true_variants, other |-> predictions,
       list |-> stats_lists[1].ins_recall_list],
      [kind |-> "INS", self |-> predictions, other |-> true_variants,
       list |-> stats_lists[1].ins_prec_list] }

\* pairs (i, j): record i of the query store and record j of the target store on c
Pairs(r, c) ==
    (1..Len(Variations(r.self, c))) \X (1..Len(Variations(r.other, c)))

\* start, end and length of a DEL or INS record as the spec defines them
StartOf(v) == v.coord1

EndOf(v) == IF v.var_type = "INS" THEN v.coord1 + v.coord2 ELSE v.coord2

LengthOf(v) == IF v.var_type = "INS" THEN v.coord2 ELSE v.coord2 - v.coord1

InRange(v) == options.min_length <= LengthOf(v) /\ LengthOf(v) <= options.max_length

RawIntersect(q, t) ==
    (IF EndOf(q) <= EndOf(t) THEN EndOf(q) ELSE EndOf(t))
      - (IF StartOf(q) >= StartOf(t) THEN StartOf(q) ELSE StartOf(t)) > 0

LengthsClose(q, t) ==
    /\ LengthOf(q) - LengthOf(t) <= options.difflength
    /\ LengthOf(t) - LengthOf(q) <= options.difflength

\* target j is recorded as an exact hit / as a mix hit of query i of chromosome c
ExactHitRecorded(list, c, i, j) ==
    \E k \in 1..Len(list) :
        /\ list[k].chromosome = c /\ list[k].index = i
        /\ \E h \in 1..Len(list[k].hits) : list[k].hits[h].index = j

MixHitRecorded(list, c, i, j) ==
    \E k \in 1..Len(list) :
        /\ list[k].chromosome = c /\ list[k].index = i
        /\ \E h \in 1..Len(list[k].mix_hits) : list[k].mix_hits[h].index = j

\* same-kind pair whose query is in the length range
SameKindPair(r, q, t) == q.var_type = r.kind /\ t.var_type = r.kind /\ InRange(q)

CandidateSet(r, c) ==
    Candidates(r.kind, Variations(r.self, c), Variations(r.other, c),
               options.min_length, options.max_length, options.offset, options.difflength)

\* the doubled distance of the spec: between centers for deletions, between
\* positions for insertions
Distance2(q, t) ==
    IF q.var_type = "INS" THEN 2 * Abs(q.coord1 - t.coord1)
    ELSE Abs((q.coord1 + q.coord2) - (t.coord1 + t.coord2))

WithinTolerance(q, t) ==
    Distance2(q, t) <= 2 * options.offset[1] /\ LengthsClose(q, t)

SweepAB(kind, c) ==
    Candidates(kind, Variations(true_variants, c), Variations(predictions, c),
               options.min_length, options.max_length, options.offset, options.difflength)

SweepBA(kind, c) ==
    Candidates(kind, Variations(predictions, c), Variations(true_variants, c),
               options.min_length, options.max_length, options.offset, options.difflength)

BothSweepsOk(kind, c) == SweepAB(kind, c).status = "ok" /\ SweepBA(kind, c).status = "ok"

ABPairs(c) ==
    (1..Len(Variations(true_variants, c))) \X (1..Len(Variations(predictions, c)))

BothQueryAndTarget(kind, a, b) ==
    /\ a.var_type = kind /\ b.var_type = kind
    /\ InRange(a) /\ InRange(b)
    /\ LengthOf(a) >= 5 /\ LengthOf(b) >= 5

SortedEvents(r, c) ==
    SortEvents(
        IF r.kind = "DEL"
        THEN DeletionQueryEvents(Variations(r.self, c), options.min_length, options.max_length)
               \cup DeletionTargetEvents(Variations(r.other, c), options.min_length,
                                         options.max_length, OrZero(options.offset),
                                         options.difflength)
        ELSE InsertionQueryEvents(Variations(r.self, c), options.min_length, options.max_length)
               \cup InsertionTargetEvents(Variations(r.other, c), options.min_length,
                                          options.max_length, OrZero(options.offset),
                                          options.difflength))

\* no Start event is processed before an End event of the same coordinate
EndBeforeStart(sorted) ==
    \A a \in 1..Len(sorted) : \A b \in 1..Len(sorted) :
        (a < b /\ sorted[a].pos = sorted[b].pos)
            => ~(sorted[a].event_type = "S" /\ sorted[b].event_type = "E")

\* the end coordinate of a target interval of a sweep of the kind
TargetEnd(kind, t) ==
    IF kind = "DEL" THEN t.coord2
    ELSE IF t.var_type = "INS" THEN t.coord1 + t.coord2
    ELSE ((t.coord1 + t.coord2) \div 2) + t.coord3[1]

Touching(r, q, t) ==
    /\ q.var_type = r.kind /\ t.var_type \in {r.kind, "MIX"}
    /\ TargetEnd(r.kind, t) = StartOf(q)

\* C4: in overlap mode every End event of a coordinate is processed before every
\* Start event of that coordinate, and a target whose interval ends where a query
\* interval starts is no candidate of the query and is recorded as no hit of it
C4_TouchingNeverMatch ==
    (Matched /\ options.mode = "overlap") =>
        \A r \in Runs : \A c \in Chroms :
            LET candidates == CandidateSet(r, c).results
            IN  /\ EndBeforeStart(SortedEvents(r, c))
                /\ \A p \in Pairs(r, c) :
                      Touching(r, Variations(r.self, c)[p[1]],
                               Variations(r.other, c)[p[2]]) =>
                          /\ p[2] \notin candidates[p[1]]
                          /\ ~ExactHitRecorded(r.list, c, p[1], p[2])
                          /\ ~MixHitRecorded(r.list, c, p[1], p[2])

\* C4 witness: an overlap-mode run in which an in-range query starts exactly where a
\* target that passes the length filter ends, both having events in the sweep
C4_Witness ==
    /\ Matched /\ options.mode = "overlap"
    /\ \E r \in Runs : \E c \in Chroms : \E p \in Pairs(r, c) :
          LET q == Variations(r.self, c)[p[1]]
              t == Variations(r.other, c)[p[2]]
          IN  /\ Touching(r, q, t) /\ SameKindPair(r, q, t)
              /\ LengthOf(q) > 0 /\ LengthsClose(q, t) /\ LengthOf(t) >= 5
              /\ \E a \in 1..Len(SortedEvents(r, c)) : \E b \in 1..Len(SortedEvents(r, c)) :
                    /\ a < b
                    /\ SortedEvents(r, c)[a].event_type = "E"
                    /\ SortedEvents(r, c)[a].list_idx = 1
                    /\ SortedEvents(r, c)[b].event_type = "S"
                    /\ SortedEvents(r, c)[b].list_idx = 0
                    /\ SortedEvents(r, c)[a].pos = SortedEvents(r, c)[b].pos

\* the scenario: one truth deletion 100-200 and one predicted deletion 105-195 on chr1,
\* fixed_distance, offset 50, diff_length 20, a length range containing 90 and 100
ScenarioLoaded ==
    /\ DOMAIN true_variants = {"chr1"} /\ DOMAIN predictions = {"chr1"}
    /\ Len(true_variants["chr1"]) = 1 /\ Len(predictions["chr1"]) = 1
    /\ true_variants["chr1"][1].var_type = "DEL"
    /\ true_variants["chr1"][1].coord1 = 100 /\ true_variants["chr1"][1].coord2 = 200
    /\ predictions["chr1"][1].var_type = "DEL"
    /\ predictions["chr1"][1].coord1 = 105 /\ predictions["chr1"][1].coord2 = 195
    /\ options.mode = "fixed_distance" /\ options.offset = Some(50)
    /\ options.difflength = 20
    /\ options.min_length <= 90 /\ options.max_length >= 100

\* the prediction matched against the truth has one outcome with one exact hit of
\* the given length difference and (doubled) center distance, and no mix hit
ScenarioHit(length_diff, dist2) ==
    /\ Len(stats_lists[1].del_prec_list) = 1
    /\ Len(stats_lists[1].del_prec_list[1].hits) = 1
    /\ stats_lists[1].del_prec_list[1].mix_hits = <<>>
    /\ stats_lists[1].del_prec_list[1].hits[1].index = 1
    /\ stats_lists[1].del_prec_list[1].hits[1].length_diff = length_diff
    /\ stats_lists[1].del_prec_list[1].hits[1].offset = dist2

\* C5 as stated: in the scenario the prediction has exactly one exact deletion hit,
\* with length_diff 0 and center distance 0
C5_ScenarioHitOriginal == (Matched /\ ScenarioLoaded) => ScenarioHit(0, 0)

\* C5 amended: in the scenario the prediction has exactly one exact deletion hit,
\* with length_diff 10 (= |90 - 100|) and center distance 0
C5_ScenarioHit == (Matched /\ ScenarioLoaded) => ScenarioHit(10, 0)

\* C5 witness: the scenario has been matched and the hit of the prediction recorded
C5_Witness ==
    /\ Matched /\ ScenarioLoaded
    /\ Len(stats_lists[1].del_prec_list) = 1
    /\ is_hit(stats_lists[1].del_prec_list[1])

\* C6: in the scenario the aggregate reports deletion precision 1.0 and deletion
\* recall 1.0 for the length range
C6_ScenarioRates ==
    (pc = "done" /\ ScenarioLoaded) =>
        /\ Len(results[1]) = 1
        /\ results[1][1].deletion_precision = <<1, 1>>
        /\ results[1][1].deletion_recall = <<1, 1>>

\* C6 witness: the scenario has been aggregated, in a range whose lower end is the
\* length of the prediction
C6_Witness ==
    /\ pc = "done" /\ ScenarioLoaded /\ results # None
    /\ options.min_length = 90
    /\ results[1][1].deletion_count = 1

(***************************************************************************)
(* Properties of get_best_hit                                              *)
(***************************************************************************)
\* max(length_diff, center_distance) of a hit, doubled (distances are in half units)
ScoreOf(h) == IF 2 * h.length_diff >= h.offset THEN 2 * h.length_diff ELSE h.offset

\* k is the position of the first hit of the smallest score
FirstMinimal(hits, k) ==
    /\ \A l \in 1..Len(hits) : ScoreOf(hits[l]) >= ScoreOf(hits[k])
    /\ \A l \in 1..(k - 1) : ScoreOf(hits[l]) > ScoreOf(hits[k])

\* C7: for a non-empty hit list get_best_hit returns the first element of the
\* smallest max(length_diff, center_distance); a call leaves hits and mix_hits as
\* they were, and a second call on the same list returns the same hit
C7_BestHitSelection ==
    /\ [](best # NotCalled =>
            IF stats.hits = <<>> THEN best = NoBestHit
            ELSE \E k \in 1..Len(stats.hits) :
                    best = stats.hits[k] /\ FirstMinimal(stats.hits, k))
    /\ [][best' # NotCalled =>
            (stats' = stats /\ (best # NotCalled => best' = best))]_vars

\* C7 witness: get_best_hit has returned a hit that is not the first of the list,
\* a later hit and an earlier-added mix hit having the same score
C7_Witness ==
    /\ best # NotCalled /\ best # NoBestHit
    /\ stats.mix_hits # <<>>
    /\ \E k \in 2..Len(stats.hits) : \E l \in (k + 1)..Len(stats.hits) :
          /\ best = stats.hits[k]
          /\ ScoreOf(stats.hits[l]) = ScoreOf(stats.hits[k])
          /\ stats.hits[l] # stats.hits[k]

(***************************************************************************)
(* Properties of the aggregate                                             *)
(***************************************************************************)
\* tool t recalls true variant v of a recall list (field: a field of the bundles)
RecalledBy(t, field, v) == Len(stats_lists[t][field][v].hits) > 0

\* the true variants that tool t recalls and no other tool does
ExclusiveTo(t, field) ==
    { v \in 1..Len(stats_lists[t][field]) :
        /\ RecalledBy(t, field, v)
        /\ \A u \in 1..Len(stats_lists) : u # t => ~RecalledBy(u, field, v) }

\* rate is count / total, total being positive
RateIs(rate, count, total) == rate[2] > 0 /\ rate[1] * total = count * rate[2]

\* C8: a tool's exclusivity rate of a kind is the number of true variants that it
\* recalls and no other tool recalls, divided by the number of true variants of the
\* kind, for insertions and for deletions separately
C8_Exclusivity ==
    pc = "done" =>
        \A t \in 1..Len(stats_lists) :
            /\ Len(stats_lists[t].del_recall_list) > 0 =>
                  RateIs(results[1][t].deletion_exclusivity,
                         Cardinality(ExclusiveTo(t, "del_recall_list")),
                         Len(stats_lists[t].del_recall_list))
            /\ Len(stats_lists[t].ins_recall_list) > 0 =>
                  RateIs(results[1][t].insertion_exclusivity,
                         Cardinality(ExclusiveTo(t, "ins_recall_list")),
                         Len(stats_lists[t].ins_recall_list))

\* C8 witness: three tools; tool 1 alone recalls one true deletion and all three
\* recall the other one; the aggregate has been computed
C8_Witness ==
    /\ pc = "done" /\ Len(stats_lists) = 3
    /\ Len(stats_lists[1].del_recall_list) = 2
    /\ \E v \in 1..2 : \E w \in 1..2 :
          /\ ExclusiveTo(1, "del_recall_list") = {v}
          /\ \A t \in 1..3 : RecalledBy(t, "del_recall_list", w)
    /\ results[1][1].deletion_exclusivity = <<1, 2>>
    /\ results[1][2].deletion_exclusivity = <<0, 1>>
    /\ results[1][3].deletion_exclusivity = <<0, 1>>

\* the target record of hit h of outcome st in run r
TargetOf(r, st, h) == Variations(r.other, st.chromosome)[h.index]

\* C9: hit_count is the number of outcomes with at least one exact hit and the
\* number of set bits of the bit-vector; an outcome without an exact hit has its bit
\* clear; no MIX target is in an exact-hit list, and mix_hits holds MIX targets only
C9_MixHitsNeverCount ==
    Matched =>
        \A r \in Runs :
            LET summary == summarize_variation_stats_list(r.list)
            IN  /\ summary.hits = Cardinality({k \in 1..Len(r.list) : r.list[k].hits # <<>>})
                /\ Len(summary.hit_bitarray) = Len(r.list)
                /\ summary.hits
                      = Cardinality({k \in 1..Len(r.list) : summary.hit_bitarray[k] = 1})
                /\ \A k \in 1..Len(r.list) :
                      /\ r.list[k].hits = <<>> => summary.hit_bitarray[k] = 0
                      /\ \A h \in 1..Len(r.list[k].hits) :
                            TargetOf(r, r.list[k], r.list[k].hits[h]).var_type = r.kind
                      /\ \A h \in 1..Len(r.list[k].mix_hits) :
                            TargetOf(r, r.list[k], r.list[k].mix_hits[h]).var_type = "MIX"

\* C9 witness: a run with an outcome that has a mix hit and no exact hit, counted as
\* a mix hit by the summary of its list
C9_Witness ==
    /\ Matched
    /\ \E r \in Runs : \E k \in 1..Len(r.list) :
          /\ r.list[k].hits = <<>> /\ r.list[k].mix_hits # <<>>
          /\ summarize_variation_stats_list(r.list).mix_hit_rate # <<0, 1>>
          /\ ~IsNaN(summarize_variation_stats_list(r.list).mix_hit_rate)

\* the genotype index of a stored record of a trio: base 3, child least significant
GenotypeIndex(v) == 9 * v.tags[1] + 3 * v.tags[2] + v.tags[3]

\* the row and the column the query variant of outcome st is to be counted at
MatrixRow(r, st) == GenotypeIndex(Variations(r.self, st.chromosome)[st.index])

MatrixColumn(r, st) ==
    IF st.hits = <<>> THEN 0
    ELSE GenotypeIndex(TargetOf(r, st, get_best_hit(st)))

\* C10 as stated: in trio mode each query variant of each of the four outcome lists
\* counts once in the matrix, at [its genotype][genotype of its best hit] when it has
\* an exact hit and at [its genotype][0] when it has none
C10_GenotypeMatrix ==
    (Matched /\ options.trio) =>
        \A r \in Runs :
            LET typematrix == summarize_variation_stats_list(r.list).typematrix
            IN  \A a \in 0..26 : \A b \in 0..26 :
                   Count(typematrix, <<a, b>>)
                     = Cardinality({k \in 1..Len(r.list) :
                                      /\ MatrixRow(r, r.list[k]) = a
                                      /\ MatrixColumn(r, r.list[k]) = b})

\* C11: in trio mode every entry of row 0 of the genotype matrix of each of the four
\* outcome lists is 0, and no stored record has the genotype '000'
C11_RowZeroUnused ==
    (Matched /\ options.trio) =>
        /\ \A r \in Runs :
              LET typematrix == summarize_variation_stats_list(r.list).typematrix
              IN  \A b \in 0..26 : Count(typematrix, <<0, b>>) = 0
        /\ \A c \in Chroms : \A r \in Runs :
              \A k \in 1..Len(Variations(r.self, c)) :
                 GenotypeIndex(Variations(r.self, c)[k]) # 0

\* C11 witness: a trio run on the files that hold a line with three absent GT strings
\* whose summary has counted a query variant in a row other than row 0
C11_Witness ==
    /\ Matched /\ options.trio /\ input = "edge"
    /\ \E r \in Runs : \E a \in 1..26 : \E b \in 0..26 :
          Count(summarize_variation_stats_list(r.list).typematrix, <<a, b>>) > 0

\* the base-3 value of a string of three digits, the last one least significant
Base3(s) == 9 * s[1] + 3 * s[2] + s[3]

\* C12: index_from_type of each of the 27 genotype strings is its base-3 value with
\* the last character least significant, lies in 0..26 and equals typedict[s]; two
\* different strings get different indices; decoding the index through the inverse
\* of typedict gives the string back
C12_IndexEncoding ==
    /\ Cardinality(DOMAIN typedict) = 27
    /\ pc = "decode" =>
          /\ \A k \in 1..2 :
                /\ results[1][k] = Base3(input[k])
                /\ results[1][k] \in 0..26
                /\ results[1][k] = typedict[input[k]]
          /\ input[1] # input[2] => results[1][1] # results[1][2]
    /\ pc = "decoded" => results[1] = input

\* C12 witness: '021' has been encoded as 7 and decoded to '021' again next to a
\* different string
C12_Witness ==
    /\ pc = "decoded"
    /\ input[1] = <<0, 2, 1>> /\ input[2] # input[1]
    /\ index_from_type(input[1]) = 7
    /\ results[1][1] = <<0, 2, 1>>

\* x is the quotient a / b, b > 0, in lowest terms
IsQuotient(x, a, b) == /\ x # None /\ x[2] > 0 /\ x[1] * b = a * x[2] /\ Gcd(x[1], x[2]) = 1

\* the value the statement gives for f_measure(recall, precision)
FMeasureIs(f, recall, precision) ==
    IF recall = None \/ precision = None THEN f = None
    ELSE IF IsNaN(recall) \/ IsNaN(precision) THEN f = NaN
    ELSE IF recall[1] = 0 /\ precision[1] = 0 THEN f = NaN
    ELSE IsQuotient(f, 2 * precision[1] * recall[1],
                    precision[1] * recall[2] + recall[1] * precision[2])

\* C13: f_measure(recall, precision) is None when an argument is None, otherwise NaN
\* when an argument is NaN or their sum is zero, otherwise
\* 2*precision*recall/(precision+recall); f_measure(1/2, 1/2) = 1/2,
\* f_measure(0, 0) = NaN, and swapping the arguments gives the same result
C13_FMeasure ==
    /\ pc \in {"swap", "returned"} =>
          /\ FMeasureIs(results[1], input[1], input[2])
          /\ input = <<(<<1, 2>>), (<<1, 2>>)>> => results[1] = <<1, 2>>
          /\ input = <<(<<0, 1>>), (<<0, 1>>)>> => results[1] = NaN
    /\ pc = "returned" => results[2] = results[1]

\* C13 witness: f_measure has returned a number other than its two different
\* arguments, the same in both orders of the arguments
C13_Witness ==
    /\ pc = "returned"
    /\ input[1] # None /\ input[2] # None /\ input[1] # input[2]
    /\ results[1] # None /\ ~IsNaN(results[1])
    /\ results[1] \notin {input[1], input[2]}
    /\ results[2] = results[1]

\* every entry of a sparse matrix or vector is 0: it has no entry other than 0
AllZero(m) == \A key \in DOMAIN m : m[key] = 0

\* C14: the summary of an empty outcome list has hit count 0, hit rate, mix hit rate,
\* average length difference and average distance NaN, an empty bit-vector, a genotype
\* matrix of zeros and zero row and column totals
C14_EmptySummary ==
    Matched =>
        \A r \in Runs :
            r.list = <<>> =>
                LET summary == summarize_variation_stats_list(r.list)
                IN  /\ summary.hits = 0
                    /\ summary.hit_rate = NaN /\ summary.mix_hit_rate = NaN
                    /\ summary.avg_length_diff = NaN /\ summary.avg_offset = NaN
                    /\ summary.hit_bitarray = <<>>
                    /\ AllZero(summary.typematrix)
                    /\ AllZero(summary.variantsums) /\ AllZero(summary.callsums)

\* C14 witness: a run in which the matchers returned an empty outcome list next to
\* a list with an outcome, both summarized
C14_Witness ==
    /\ Matched
    /\ \E r \in Runs : r.list = <<>> /\ summarize_variation_stats_list(r.list).hits = 0
    /\ \E r \in Runs : r.list # <<>> /\ ~IsNaN(summarize_variation_stats_list(r.list).hit_rate)

\* the number of outcomes of a list with an exact hit
ExactHits(list) == Cardinality({k \in 1..Len(list) : list[k].hits # <<>>})

\* x is NaN exactly when the denominator is zero
NaNIff(x, denominator) == (x = NaN) <=> (denominator = 0)

\* the rates of one kind of variant in a tool's record, given its precision list and
\* its recall list: each is NaN exactly when its denominator is zero
RatesDegrade(precision, mix_hits, lendiff, distance, recall, exclusivity, f, prec, rec) ==
    /\ NaNIff(precision, Len(prec)) /\ NaNIff(mix_hits, Len(prec))
    /\ NaNIff(lendiff, ExactHits(prec)) /\ NaNIff(distance, ExactHits(prec))
    /\ NaNIff(recall, Len(rec)) /\ NaNIff(exclusivity, Len(rec))
    /\ NaNIff(f, IF Len(prec) = 0 \/ Len(rec) = 0 THEN 0
                 ELSE ExactHits(prec) + ExactHits(rec))

KnownModes == {"overlap", "fixed_distance", "significant"}

\* C16 as stated: with a mode that is none of overlap, fixed_distance, significant
\* the calls of deletion_hit_statistics and insertion_hit_statistics never return
\* an outcome list, whatever the stores hold
C16_InvalidModeFatal ==
    options.mode \notin KnownModes => pc \notin {"aggregate", "done"} /\ stats_lists = <<>>

\* C17: a run of main with mode 'significant' only loads its files and returns an
\* error: no outcome list is computed, no chromosome list is read by a matcher,
\* nothing is aggregated
C17_SignificantFailsFast ==
    options.mode = "significant" =>
        /\ pc \in {"load", "rejected"}
        /\ stats_lists = <<>>
        /\ results = None
        /\ \A c \in Chroms : Variations(true_variants, c) \o Variations(predictions, c) # <<>>

\* C17 witness: main has returned its error for mode 'significant' after loading
\* true variants and a prediction on the same chromosome
C17_Witness ==
    /\ options.mode = "significant" /\ pc = "rejected"
    /\ \E c \in Chroms : Variations(true_variants, c) # <<>> /\ Variations(predictions, c) # <<>>

\* the GT strings of the three states: absent, heterozygous, homozygous
RecognisedGT ==
    {"0/0", "0|0", "./.", ".|.", "0/.", "./0", "0|.", ".|0"}
        \cup {"1/.", "1/0", "1|0", "1|.", "0|1", ".|1", "0/1", "./1"}
        \cup {"1/1", "1|1"}

\* a line with a GT string of mother, father or child that is none of these
MalformedLine(line) == \E k \in 1..3 : line.family[k] \notin RecognisedGT

\* record v of chromosome c was stored from line (the lines of a family of input
\* files differ in chromosome, coordinates or kind)
StoredFrom(c, v, line) ==
    /\ c = line.chromosome /\ v.var_type = line.var_type
    /\ v.coord1 = line.coord1 /\ v.coord2 = line.coord2 /\ v.coord3 = line.coord3

\* C18 as stated: in trio mode no store holds a record of a line one of whose three
\* GT strings is not a recognised one
C18_MalformedGenotypeFatal ==
    options.trio =>
        \A line \in Lines(input) :
            MalformedLine(line) =>
                \A store \in {true_variants, predictions} :
                    \A c \in DOMAIN store : \A k \in 1..Len(store[c]) :
                        ~StoredFrom(c, store[c][k], line)

\* the steps of main after loading: the calls of the matchers and the aggregation
AfterLoading == pc' \notin {"load", "rejected"}

\* C19 as stated: the calls of the matchers, of the summary and of the aggregation
\* leave get_chromosomes and the record list of every chromosome of both stores as
\* they were
C19_StoreImmutable ==
    [][AfterLoading =>
          /\ get_chromosomes(true_variants') = get_chromosomes(true_variants)
          /\ get_chromosomes(predictions') = get_chromosomes(predictions)
          /\ \A c \in Chroms :
                /\ Variations(true_variants', c) = Variations(true_variants, c)
                /\ Variations(predictions', c) = Variations(predictions, c)]_vars

\* values of the offset argument other than the None main passes in overlap mode:
\* no tolerance, and one that moves the widened boundaries of the targets
Offsets == {Some(0), Some(6)}

\* the four calls of the run made with offset off instead of the run's offset
RunWithOffset(off) == MatchRun(true_variants, predictions, [options EXCEPT !.offset = off])

\* the candidate sets of the truth deletions and insertions on chromosome c with offset off
CandidatesWithOffset(kind, c, off) ==
    Candidates(kind, Variations(true_variants, c), Variations(predictions, c),
               options.min_length, options.max_length, off, options.difflength).results

\* C20: in overlap mode the four calls made with any other offset end as the calls of
\* the run ended: with the same exact hits and mix hits of every query variant when
\* they returned, with the same exception when one was raised
C20_OffsetUnusedInOverlapMode ==
    options.mode = "overlap" =>
        /\ Matched =>
              \A off \in Offsets :
                 LET run == RunWithOffset(off)
                 IN  run.status = "ok" /\ run.bundle = stats_lists[1]
        /\ pc \notin {"load", "aggregate", "done"} =>
              \A off \in Offsets : RunWithOffset(off).status = pc

\* C20 witness: an overlap-mode run with an exact hit in which the offset does
\* change the candidates of a query variant
C20_Witness ==
    /\ options.mode = "overlap" /\ Matched
    /\ \E r \in Runs : \E k \in 1..Len(r.list) : r.list[k].hits # <<>>
    /\ \E c \in Chroms : \E kind \in {"DEL", "INS"} :
          CandidatesWithOffset(kind, c, Some(6)) # CandidatesWithOffset(kind, c, None)

\* the filters of the sweep of kind on a query record q and on a target record t
PassesQueryFilter(kind, q) ==
    /\ q.var_type = kind /\ InRange(q)
    /\ kind = "INS" => LengthOf(q) > 0

SweepTargetLength(kind, t) ==
    IF kind = "DEL" THEN DeletionTargetLength(t)
    ELSE IF t.var_type = "INS" THEN t.coord2
    ELSE t.coord3[1] - (t.coord2 - t.coord1)

PassesTargetFilter(kind, t) ==
    /\ t.var_type \in {kind, "MIX"}
    /\ SweepTargetLength(kind, t) >= Max(options.min_length - options.difflength, 5)
    /\ SweepTargetLength(kind, t) <= options.max_length + options.difflength
    /\ (kind = "INS" /\ t.var_type = "INS") => t.coord2 > 0

\* start and end of the target interval before widening
SweepTargetStart(kind, t) ==
    IF kind = "INS" /\ t.var_type = "MIX" THEN (t.coord1 + t.coord2) \div 2 ELSE t.coord1

SweepTargetEnd(kind, t) ==
    IF kind = "DEL" THEN t.coord2
    ELSE IF t.var_type = "INS" THEN t.coord1 + t.coord2
    ELSE (t.coord1 + t.coord2) \div 2 + t.coord3[1]

\* max(start_i, start_j - offset) < min(end_i, end_j + offset)
StrictOverlap(kind, q, t) ==
    Max(StartOf(q), SweepTargetStart(kind, t) - OrZero(options.offset))
        < Min(EndOf(q), SweepTargetEnd(kind, t) + OrZero(options.offset))

\* the strict-overlap relation of the query records of list a and the target
\* records of list b
OverlapRelation(kind, a, b) ==
    [i \in 1..Len(a) |->
        IF PassesQueryFilter(kind, a[i])
        THEN {j \in 1..Len(b) : PassesTargetFilter(kind, b[j]) /\ StrictOverlap(kind, a[i], b[j])}
        ELSE {}]

\* the sweep of kind returns the relation for the lists a and b
SweepIsRelation(kind, a, b) ==
    LET sweep == Candidates(kind, a, b, options.min_length, options.max_length,
                            options.offset, options.difflength)
    IN  sweep.status = "ok" /\ sweep.results = OverlapRelation(kind, a, b)

\* C22 as stated: for the loaded stores, in both directions and on every chromosome,
\* find_all_deletion_overlaps and insertion_distances return for each query variant
\* exactly the set of the filtered target variants whose widened interval strictly
\* overlaps the query interval
C22_SweepIsStrictOverlap ==
    (pc = "load" /\ ModeAccepted(options.mode)) =>
        \A kind \in {"DEL", "INS"} : \A c \in Chroms :
            /\ SweepIsRelation(kind, Variations(true_variants, c), Variations(predictions, c))
            /\ SweepIsRelation(kind, Variations(predictions, c), Variations(true_variants, c))

\* the sweep of kind over the lists a and b removes only active indices and ends
\* with both active sets empty
SweepWellFormed(kind, a, b) ==
    LET sweep == Candidates(kind, a, b, options.min_length, options.max_length,
                            options.offset, options.difflength)
    IN  sweep.status # "AssertionError" =>
            sweep.status # "KeyError" /\ sweep.active = <<{}, {}>>

\* C23 as stated: in every sweep over the loaded stores that passes the assertions
\* each End event removes an index that is in its active set, and both active sets
\* are empty at the end
C23_SweepWellFormed ==
    (pc = "load" /\ ModeAccepted(options.mode)) =>
        \A kind \in {"DEL", "INS"} : \A c \in Chroms :
            /\ SweepWellFormed(kind, Variations(true_variants, c), Variations(predictions, c))
            /\ SweepWellFormed(kind, Variations(predictions, c), Variations(true_variants, c))

\* the three classes of outcomes of a list: exact hit, mix-only, true miss
ExactClass(list) == {k \in 1..Len(list) : list[k].hits # <<>>}

MixOnlyClass(list) == {k \in 1..Len(list) : list[k].hits = <<>> /\ list[k].mix_hits # <<>>}

MissClass(list) == {k \in 1..Len(list) : list[k].hits = <<>> /\ list[k].mix_hits = <<>>}

\* the rate x is count / n, n > 0
RateOf(x, count, n) == x[2] > 0 /\ x[1] * n = count * x[2]

\* C24: the summary counts as hits the outcomes with an exact hit and as mix hits the
\* outcomes with a mix hit and no exact hit; with the true misses these are n
\* outcomes, and hit_rate + mix_hit_rate <= 1 when n > 0
C24_OutcomePartition ==
    Matched =>
        \A r \in Runs :
            LET summary == summarize_variation_stats_list(r.list)
                n == Len(r.list)
                hits == Cardinality(ExactClass(r.list))
                mix_hits == Cardinality(MixOnlyClass(r.list))
                misses == Cardinality(MissClass(r.list))
            IN  /\ summary.hits = hits
                /\ hits + mix_hits + misses = n
                /\ n > 0 =>
                      /\ RateOf(summary.hit_rate, hits, n)
                      /\ RateOf(summary.mix_hit_rate, mix_hits, n)
                      /\ summary.hit_rate[1] * summary.mix_hit_rate[2]
                           + summary.mix_hit_rate[1] * summary.hit_rate[2]
                              <= summary.hit_rate[2] * summary.mix_hit_rate[2]

\* C24 witness: a summarized list with an outcome that has an exact hit and a mix
\* hit, counted as a hit and not as a mix hit
C24_Witness ==
    /\ Matched
    /\ \E r \in Runs :
          /\ \E k \in 1..Len(r.list) : r.list[k].hits # <<>> /\ r.list[k].mix_hits # <<>>
          /\ MixOnlyClass(r.list) = {}
          /\ summarize_variation_stats_list(r.list).mix_hit_rate = <<0, 1>>

\* the outcomes of a list whose query variant has genotype index i
OfGenotype(r, i) == {k \in 1..Len(r.list) : MatrixRow(r, r.list[k]) = i}

\* C25 as stated: in trio mode, for each of the four outcome lists and each genotype
\* index i, variantsums[i] is the number of query variants of genotype i and
\* variantsums[i] - typematrix[i][0] is the number of those that have an exact hit
C25_RowTotals ==
    (Matched /\ options.trio) =>
        \A r \in Runs :
            LET summary == summarize_variation_stats_list(r.list)
            IN  \A i \in 0..26 :
                   /\ Count(summary.variantsums, i) = Cardinality(OfGenotype(r, i))
                   /\ Count(summary.variantsums, i) - Count(summary.typematrix, <<i, 0>>)
                        = Cardinality(OfGenotype(r, i) \cap ExactClass(r.list))

\* a tool's record without its two exclusivity fields
WithoutExclusivity(tool) ==
    [tool EXCEPT !.insertion_exclusivity = None, !.deletion_exclusivity = None]

\* C21: after the bundle of one tool has been exchanged and the bundles aggregated
\* again, the record of every other tool is the one of the aggregation before,
\* except for insertion_exclusivity and deletion_exclusivity
C21_ToolIndependence ==
    (pc = "done" /\ best # NotCalled) =>
        /\ Len(results[1]) = Len(best.before)
        /\ \A t \in 1..Len(results[1]) :
              t # best.exchanged =>
                  WithoutExclusivity(results[1][t]) = WithoutExclusivity(best.before[t])

\* C21 witness: three tools aggregated again after the exchange of one bundle, which
\* has changed the exclusivity of another tool and the record of the exchanged one
C21_Witness ==
    /\ pc = "done" /\ best # NotCalled /\ Len(results[1]) = 3
    /\ WithoutExclusivity(results[1][best.exchanged])
          # WithoutExclusivity(best.before[best.exchanged])
    /\ \E t \in 1..3 :
          /\ t # best.exchanged
          /\ results[1][t].deletion_exclusivity # best.before[t].deletion_exclusivity

\* the <<chromosome, index>> of the query variants of an outcome list, in its order
QueryKeys(list) == [k \in 1..Len(list) |-> <<list[k].chromosome, list[k].index>>]

\* the in-range true variants of the kind: chromosome by chromosome in the order of
\* the chromosomes chroms, by index within a chromosome
RECURSIVE QueriesOf(_, _, _, _)
QueriesOf(kind, c, list, i) ==
    IF i > Len(list) THEN <<>>
    ELSE (IF list[i].var_type = kind /\ InRange(list[i]) THEN <<(<<c, i>>)>> ELSE <<>>)
            \o QueriesOf(kind, c, list, i + 1)

RECURSIVE TrueQueries(_, _, _)
TrueQueries(kind, chroms, k) ==
    IF k > Len(chroms) THEN <<>>
    ELSE QueriesOf(kind, chroms[k], Variations(true_variants, chroms[k]), 1)
            \o TrueQueries(kind, chroms, k + 1)

\* the recall lists of a bundle are those of the in-range true variants
RecallAligned(bundle) ==
    /\ QueryKeys(bundle.del_recall_list) = TrueQueries("DEL", ChromOrder, 1)
    /\ QueryKeys(bundle.ins_recall_list) = TrueQueries("INS", ChromOrder, 1)

DictClass(s) == IF s \in DOMAIN triotypedict THEN triotypedict[s] ELSE mistypedict[s]

\* the genotype string with the digits of mother and father swapped
SwapParents(s) == <<s[2], s[1], s[3]>>

\* the indices listed in mistypes
Mistyped == {mistypes[k] : k \in 1..Len(mistypes)}

\* C27: the two dictionaries cover the 27 genotype strings without overlap, and
\* type2trio at the index of a string is the class its dictionary gives; two strings
\* that are each other's mother/father swap get one class; the classes are exactly
\* 0..17; a class is greater than 10 exactly at the indices listed in mistypes
C27_TrioPatternTable ==
    /\ DOMAIN triotypedict \cap DOMAIN mistypedict = {}
    /\ DOMAIN triotypedict \cup DOMAIN mistypedict = Genostrings
    /\ Len(type2trio) = 27
    /\ {type2trio[i] : i \in 1..27} = 0..17
    /\ pc = "classified" =>
          /\ \A k \in 1..2 :
                /\ results[1].trio[k] = DictClass(input[k])
                /\ results[1].trio[k] \in 0..17
                /\ results[1].trio[k] > 10 <=> index_from_type(input[k]) \in Mistyped
          /\ input[2] = SwapParents(input[1]) => results[1].trio[1] = results[1].trio[2]

\* C27 witness: '021' and its swap '201' have been classified as 4, a class the
\* mistyped '020' (13) does not share
C27_Witness ==
    /\ pc = "classified"
    /\ input = <<(<<0, 2, 1>>), (<<2, 0, 1>>)>>
    /\ results[1].trio = <<4, 4>>
    /\ type2trio[index_from_type(<<0, 2, 0>>) + 1] = 13

\* who carries the variant: the positions (1 mother, 2 father, 3 child) of the
\* digits of a genotype string that are not 0
Carriers(s) == {k \in 1..3 : s[k] # 0}

\* the numbering of the carrier subsets: 0 none, 1 child only, 2 father only,
\* 3 mother only, 4 father and child, 5 mother and child, 6 mother and father, 7 all
CarrierClass(carriers) ==
    IF carriers = {} THEN 0
    ELSE IF carriers = {3} THEN 1
    ELSE IF carriers = {2} THEN 2
    ELSE IF carriers = {1} THEN 3
    ELSE IF carriers = {2, 3} THEN 4
    ELSE IF carriers = {1, 3} THEN 5
    ELSE IF carriers = {1, 2} THEN 6
    ELSE 7

\* C28: type2member at the index of a genotype string is the number of the subset
\* of family members with a non-zero digit, so that two strings get one class
\* exactly when their carriers are the same
C28_MembershipTable ==
    /\ Len(type2member) = 27
    /\ pc = "classified" =>
          /\ \A k \in 1..2 : results[1].member[k] = CarrierClass(Carriers(input[k]))
          /\ results[1].member[1] = results[1].member[2]
                <=> Carriers(input[1]) = Carriers(input[2])

\* C28 witness: '021' and '012', of different zygosity, are both classified as
\* father and child (4)
C28_Witness ==
    /\ pc = "classified"
    /\ input = <<(<<0, 2, 1>>), (<<0, 1, 2>>)>>
    /\ results[1].member = <<4, 4>>

\* the <<query, target>> exact-hit pairs of an outcome list
HitPairs(list) ==
    UNION {{<<list[k].chromosome, list[k].index, list[k].hits[h].index>> :
                h \in 1..Len(list[k].hits)} : k \in 1..Len(list)}

\* a rate is not smaller than another one; two NaN rates are equal
RateAtLeast(y, x) == IF IsNaN(x) \/ IsNaN(y) THEN x = y ELSE x[1] * y[2] <= y[1] * x[2]

\* the outcome list after the tolerances were raised has the queries of the list
\* before, all its exact-hit pairs, and no smaller hit count and hit rate
NoHitLost(before, after) ==
    /\ QueryKeys(after) = QueryKeys(before)
    /\ HitPairs(before) \subseteq HitPairs(after)
    /\ summarize_variation_stats_list(before).hits
          <= summarize_variation_stats_list(after).hits
    /\ RateAtLeast(summarize_variation_stats_list(after).hit_rate,
                   summarize_variation_stats_list(before).hit_rate)

\* C29: in fixed_distance mode a second run on the same files with offset and
\* difflength not smaller than in the first completes when the first did, and each
\* of its four outcome lists keeps every exact-hit pair of the first run, so that
\* hit counts, precision and recall do not decrease
C29_ToleranceMonotone ==
    /\ Len(stats_lists) = 1 => pc = "aggregate"
    /\ Len(stats_lists) = 2 =>
          /\ NoHitLost(stats_lists[1].del_recall_list, stats_lists[2].del_recall_list)
          /\ NoHitLost(stats_lists[1].del_prec_list, stats_lists[2].del_prec_list)
          /\ NoHitLost(stats_lists[1].ins_recall_list, stats_lists[2].ins_recall_list)
          /\ NoHitLost(stats_lists[1].ins_prec_list, stats_lists[2].ins_prec_list)

\* C29 witness: a second run that keeps the exact hit of the first run on one true
\* deletion and finds one on a true deletion the first run missed
C29_Witness ==
    /\ Len(stats_lists) = 2
    /\ HitPairs(stats_lists[1].del_recall_list) # {}
    /\ HitPairs(stats_lists[1].del_recall_list) # HitPairs(stats_lists[2].del_recall_list)
    /\ summarize_variation_stats_list(stats_lists[1].del_recall_list).hits
          < summarize_variation_stats_list(stats_lists[2].del_recall_list).hits

\* the fields improve takes the larger value of, and those it takes the smaller of
MaxFields ==
    {"insertion_recall", "insertion_precision", "insertion_mix_hits",
     "insertion_exclusivity", "insertion_f", "deletion_recall", "deletion_precision",
     "deletion_mix_hits", "deletion_exclusivity", "deletion_f"}

MinFields ==
    {"insertion_avg_lendiff", "insertion_avg_distance", "deletion_avg_lendiff",
     "deletion_avg_distance"}

\* the values among values that are neither None nor NaN
Numbers(values) == {v \in values : v # None /\ ~IsNaN(v)}

\* v is the best of values: the largest (smallest, if smallest) of its numbers, NaN
\* if it has no number but a NaN, None if it is empty or has None only
IsBestOf(v, values, smallest) ==
    IF Numbers(values) # {}
    THEN /\ v \in Numbers(values)
         /\ \A w \in Numbers(values) :
               IF smallest THEN v[1] * w[2] <= w[1] * v[2] ELSE v[1] * w[2] >= w[1] * v[2]
    ELSE IF NaN \in values THEN v = NaN
    ELSE v = None

\* the values of a field in the records of the tools best was improved with
ImprovedWith(field) == {results[1][best.improved[k]][field] : k \in 1..Len(best.improved)}

\* C30: while best is improved with the tools of a list in any order, each rate
\* field of best is the maximum and each avg_lendiff and avg_distance field the
\* minimum of the numbers among the values of the tools taken so far (NaN if there
\* are only NaN values, None if there is no value); the name of best is None, its
\* other fields stay None, and the records of the tools are those the aggregation
\* returned
C30_BestOfAccumulation ==
    pc = "improve" =>
        /\ \A f \in MaxFields : IsBestOf(best.self[f], ImprovedWith(f), FALSE)
        /\ \A f \in MinFields : IsBestOf(best.self[f], ImprovedWith(f), TRUE)
        /\ \A f \in DOMAIN best.self \ (MaxFields \cup MinFields) : best.self[f] = None
        /\ results[1] = aggregate_toolwise_statistics(stats_lists, options.tool_names).result

\* C30 witness: best improved with three tools, the last of them taken first, with
\* a NaN among the insertion precisions, different deletion precisions, and a NaN
\* and the numbers 0 and 1 among the deletion avg_lendiff values
C30_Witness ==
    /\ pc = "improve"
    /\ Len(best.improved) = 3 /\ best.improved[1] = 3
    /\ NaN \in ImprovedWith("insertion_precision")
    /\ Cardinality(Numbers(ImprovedWith("deletion_precision"))) > 1
    /\ NaN \in ImprovedWith("deletion_avg_lendiff")
    /\ Numbers(ImprovedWith("deletion_avg_lendiff")) = {<<0, 1>>, <<1, 1>>}
    /\ best.self.deletion_avg_lendiff = <<0, 1>>

====
